---- MODULE Spec2Model ----
(***************************************************************************)
(* Model of the frame viewer of sf6_sim (src/app/simulator.rs): the        *)
(* Viewer struct, open_fchar, the ui pass with its recompute block,        *)
(* update_position, get_boxes, index_to_box, get_trigger_keys and          *)
(* get_triggers.                                                           *)
(*                                                                         *)
(* f32 values are modelled by integers: every float of the assets below    *)
(* is a small whole number, on which f32 addition, multiplication and      *)
(* comparison are exact.  NaN and infinities are outside the model.        *)
(* A Rust panic (unwrap on None, index out of bounds, usize underflow)     *)
(* aborts the process: it is modelled by the flag panicked, after which    *)
(* no operation runs.                                                      *)
(***************************************************************************)
EXTENDS Integers, Sequences, FiniteSets, TLC

(***************************************************************************)
(* RSZValue: the tagged union of the parser.  A 64-bit mask is held as the *)
(* set of its set bit positions (0 = least significant).                   *)
(***************************************************************************)
Int8(n)   == [t |-> "Int8",   v |-> n]
UInt8(n)  == [t |-> "UInt8",  v |-> n]
Int16(n)  == [t |-> "Int16",  v |-> n]
UInt16(n) == [t |-> "UInt16", v |-> n]
Int32(n)  == [t |-> "Int32",  v |-> n]
UInt32(n) == [t |-> "UInt32", v |-> n]
UInt64(bits) == [t |-> "UInt64", v |-> bits]
Float(n)  == [t |-> "Float",  v |-> n]
List(s)   == [t |-> "List",   v |-> s]
Bool(b)   == [t |-> "Bool",   v |-> b]
Int2(x, y) == [t |-> "Int2",  v |-> <<x, y>>]

\* a field the viewer never reads
Pad == Bool(FALSE)

\* an RSZ record: kind name and positional fields; Field is 0-based as in data.fields[k]
RSZ(name, fields) == [name |-> name, fields |-> fields]
Field(data, k) == data.fields[k + 1]

\* fixed-size record layouts of the tables (index * stride - 1)
BoxStride == 6
TriggerStride == 17
\* one mask covers 64 trigger slots
MaskWidth == 64

(***************************************************************************)
(* Records of the asset, by kind.                                          *)
(***************************************************************************)
SteerKey(op, target, modify) ==
    RSZ("CharacterAsset.SteerKey", <<op, target, Pad, Pad, modify>>)
PlaceKey(axis, samples) ==
    RSZ("CharacterAsset.PlaceKey", <<Pad, axis, Pad, samples>>)
TriggerKey(group, flag) ==
    RSZ("CharacterAsset.TriggerKey", <<group, flag>>)
PushCollisionKey(condition, attribute, box) ==
    RSZ("CharacterAsset.PushCollisionKey", <<condition, attribute, box>>)
DamageCollisionKey(condition, ctype, tflag, head, body, leg) ==
    RSZ("CharacterAsset.DamageCollisionKey",
        <<condition, ctype, UInt8(0), UInt8(0), UInt8(0), tflag,
          Pad, Pad, Pad, head, body, leg, List(<<>>)>>)
AttackCollisionKey(condition, ctype, hit, field4, boxes) ==
    RSZ("CharacterAsset.AttackCollisionKey",
        <<condition, ctype, hit, UInt8(0), field4,
          Pad, Pad, Pad, Pad, Pad, Pad, boxes>>)
OtherKey == RSZ("CharacterAsset.VoiceKey", <<Pad>>)

BoxRecord(x, y, w, h) == RSZ("Rect", <<Int16(x), Int16(y), Int16(w), Int16(h)>>)
TriggerRecord(action) ==
    RSZ("Trigger", <<Pad, Pad, Pad, Pad, Pad, action>>)
TriggerGroupRecord(masks) == RSZ("TriggerGroup", <<Pad, masks>>)
Filler == RSZ("Filler", <<Pad, Pad, Pad, Pad, Pad, Pad>>)

RECURSIVE Fillers(_)
Fillers(n) == IF n <= 0 THEN <<>> ELSE <<Filler>> \o Fillers(n - 1)

\* data_rsz of a fixed-stride table: each entry is preceded by stride-1 other records
RECURSIVE Strided(_, _)
Strided(recs, stride) ==
    IF recs = <<>> THEN <<>>
    ELSE Fillers(stride - 1) \o <<Head(recs)>> \o Strided(Tail(recs), stride)

Table(ids, rsz) == [data_ids |-> ids, data_rsz |-> rsz]
Key(s, e) == [key_start_frame |-> s, key_end_frame |-> e]
\* a timeline object: parallel key intervals / object_table, and the records addressed
Object(keys, table, data) == [key_data |-> keys, object_table |-> table, data |-> data]
\* an action: declared id, frame count, the two header records, timeline objects
Action(id, frames, header, objects) ==
    [action_id |-> id, frames |-> frames, data |-> header, objects |-> objects]
Header(first, recovery, end, loops) ==
    << RSZ("ActionFrame", <<first, recovery, end>>), RSZ("ActionState", <<loops>>) >>

(***************************************************************************)
(* Vector3f and the zero vector (Default).                                 *)
(***************************************************************************)
Vec(x, y, z) == [x |-> x, y |-> y, z |-> z]
ZeroVec == Vec(0, 0, 0)

\* let v = ...; body(v): the value is computed once and named
Bind(v, Body(_)) == Body(v)

VARIABLES
    asset, selected_index, action_index, current_frame, should_update,
    action_info, push_collision_keys, damage_collision_keys,
    attack_collision_keys, triggers,
    position, velocity, acceleration,
    prev_position, prev_velocity, prev_acceleration, root_motion,
    panicked, pass

vars == << asset, selected_index, action_index, current_frame, should_update,
           action_info, push_collision_keys, damage_collision_keys,
           attack_collision_keys, triggers,
           position, velocity, acceleration,
           prev_position, prev_velocity, prev_acceleration, root_motion,
           panicked, pass >>

(***************************************************************************)
(* SteerOperationType and SteerValueType, by discriminant.                 *)
(***************************************************************************)
Nop == 0
Set == 1
Add == 2
Multiply == 3
SetNegativeX == 6
SetNegativeY == 7
SetNegativeZ == 8
SetMinimum == 9
SetMaximum == 10
SetInheritXYZ == 16
VelocityX == 0
VelocityY == 1
VelocityZ == 2
AccelerationX == 3
AccelerationY == 4
AccelerationZ == 5

\* num::FromPrimitive::from_u8: Some(variant) for a declared discriminant, else None
SteerOperationType_from_u8(ubyte) ==
    IF ubyte \in Nop..SetInheritXYZ THEN <<ubyte>> ELSE <<>>
SteerValueType_from_u8(ubyte) ==
    IF ubyte \in VelocityX..AccelerationZ THEN <<ubyte>> ELSE <<>>

\* mutant: SetMinimum and SetMaximum compare the wrong way round
steer_key_to_value_swapped(op_type, in_value, prev_value, modify_value) ==
    CASE op_type = Set -> modify_value
      [] op_type = Add -> in_value + modify_value
      [] op_type = Multiply -> in_value * modify_value
      [] op_type \in {SetNegativeX, SetNegativeY, SetNegativeZ} ->
            IF in_value < 0 /\ prev_value > 0 THEN modify_value
            ELSE IF in_value > 0 /\ prev_value < 0 THEN modify_value
            ELSE in_value
      [] op_type = SetMinimum ->
            IF in_value < modify_value THEN modify_value ELSE in_value
      [] op_type = SetMaximum ->
            IF in_value > modify_value THEN modify_value ELSE in_value
      [] OTHER -> in_value

steer_key_to_value(op_type, in_value, prev_value, modify_value) ==
    CASE op_type = Set -> modify_value
      [] op_type = Add -> in_value + modify_value
      [] op_type = Multiply -> in_value * modify_value
      [] op_type \in {SetNegativeX, SetNegativeY, SetNegativeZ} ->
            IF in_value < 0 /\ prev_value > 0 THEN modify_value
            ELSE IF in_value > 0 /\ prev_value < 0 THEN modify_value
            ELSE in_value
      [] op_type = SetMinimum ->
            IF in_value > modify_value THEN modify_value ELSE in_value
      [] op_type = SetMaximum ->
            IF in_value < modify_value THEN modify_value ELSE in_value
      [] OTHER -> in_value

(***************************************************************************)
(* The scan shared by update_position, get_boxes and get_trigger_keys:     *)
(* for every timeline object in order, for every key index in order, the   *)
(* record addressed by object_table when the key interval covers frame.    *)
(* Each entry keeps the (object, key) position it came from.               *)
(***************************************************************************)
KeyCovers(key, frame) ==
    key.key_start_frame <= frame /\ key.key_end_frame > frame

RECURSIVE ActiveInObject(_, _, _, _)
ActiveInObject(object, o, index, frame) ==
    IF index > Len(object.object_table) THEN <<>>
    ELSE (IF KeyCovers(object.key_data[index], frame)
          THEN << [obj |-> o, key |-> index,
                   data |-> object.data[object.object_table[index]]] >>
          ELSE <<>>)
         \o ActiveInObject(object, o, index + 1, frame)

RECURSIVE ActiveFrom(_, _, _)
ActiveFrom(action, o, frame) ==
    IF o > Len(action.objects) THEN <<>>
    ELSE ActiveInObject(action.objects[o], o, 1, frame)
         \o ActiveFrom(action, o + 1, frame)

ActiveRecords(action, frame) == ActiveFrom(action, 1, frame)

\* the selected action: fchar.action_list[self.selected_index as usize]
SelectedAction(self) == self.asset[1].action_list[self.selected_index + 1]

(***************************************************************************)
(* update_position.  A key handler ends in "next" (go on with the scan),   *)
(* "return" (the function returns at once) or "panic".                     *)
(***************************************************************************)
Step(self, outcome) == [self |-> self, outcome |-> outcome]

\* the match over value_type: the targeted component is rewritten
SteerTarget(self, op_type, value_type, modify_value) ==
    CASE value_type = VelocityX ->
            [self EXCEPT !.velocity.x = steer_key_to_value(
                op_type, self.velocity.x, self.prev_velocity.x, modify_value)]
      [] value_type = VelocityY ->
            [self EXCEPT !.velocity.y = steer_key_to_value(
                op_type, self.velocity.y, self.prev_velocity.y, modify_value)]
      [] value_type = VelocityZ ->
            [self EXCEPT !.velocity.z = steer_key_to_value(
                op_type, self.velocity.z, self.prev_velocity.z, modify_value)]
      [] value_type = AccelerationX ->
            [self EXCEPT !.acceleration.x = steer_key_to_value(
                op_type, self.acceleration.x, self.prev_acceleration.x, modify_value)]
      [] value_type = AccelerationY ->
            [self EXCEPT !.acceleration.y = steer_key_to_value(
                op_type, self.acceleration.y, self.prev_acceleration.y, modify_value)]
      [] value_type = AccelerationZ ->
            [self EXCEPT !.acceleration.z = steer_key_to_value(
                op_type, self.acceleration.z, self.prev_acceleration.z, modify_value)]

\* mutant: the acceleration of a stopped axis is kept
SteerStop_never(self, op_type) == self

\* the match over op_type that follows: SetNegative{X,Y,Z} on a stopped axis
SteerStop(self, op_type) ==
    CASE op_type = SetNegativeX /\ self.velocity.x = 0 -> [self EXCEPT !.acceleration.x = 0]
      [] op_type = SetNegativeY /\ self.velocity.y = 0 -> [self EXCEPT !.acceleration.y = 0]
      [] op_type = SetNegativeZ /\ self.velocity.z = 0 -> [self EXCEPT !.acceleration.z = 0]
      [] OTHER -> self

ApplySteerKey(self, data) ==
    LET op_value == Field(data, 0)
        op_opt == IF op_value.t = "UInt8"
                  THEN SteerOperationType_from_u8(op_value.v) ELSE <<Nop>>
        value == Field(data, 1)
        vt_opt == IF value.t = "UInt8"
                  THEN SteerValueType_from_u8(value.v) ELSE <<VelocityX>>
        modify_type == Field(data, 4)
        modify_value == IF modify_type.t = "Float" THEN modify_type.v ELSE 0
    IN  IF op_opt = <<>> \/ vt_opt = <<>> THEN Step(self, "panic")
        ELSE Step(SteerStop(SteerTarget(self, op_opt[1], vt_opt[1], modify_value),
                            op_opt[1]), "next")

ApplyPlaceKey(self, data, frame) ==
    LET pos_list_value == Field(data, 3)
        pos_list == IF pos_list_value.t = "List" THEN pos_list_value.v ELSE <<>>
        axis == Field(data, 1)
    IN  IF frame >= Len(pos_list) THEN Step(self, "return")
        ELSE
        LET sample == pos_list[frame + 1]
        IN  IF axis.t = "UInt8" /\ sample.t = "Float"
            THEN CASE axis.v = 0 -> Step([self EXCEPT !.root_motion.x = sample.v], "next")
                   [] axis.v = 1 -> Step([self EXCEPT !.root_motion.y = sample.v], "next")
                   [] axis.v = 2 -> Step([self EXCEPT !.root_motion.z = sample.v], "next")
                   [] OTHER -> Step(self, "next")
            ELSE Step(self, "next")

ApplyKey(self, data, frame) ==
    CASE data.name = "CharacterAsset.SteerKey" -> ApplySteerKey(self, data)
      [] data.name = "CharacterAsset.PlaceKey" -> ApplyPlaceKey(self, data, frame)
      [] OTHER -> Step(self, "next")

\* the two nested for loops of update_position over the covering records;
\* dispatched collects the (object, key) positions whose record was matched
RECURSIVE ScanKeys(_, _, _, _, _)
ScanKeys(self, recs, i, frame, dispatched) ==
    IF i > Len(recs)
    THEN [self |-> self, outcome |-> "next", dispatched |-> dispatched]
    ELSE Bind(ApplyKey(self, recs[i].data, frame), LAMBDA r :
         Bind(dispatched \cup {<<recs[i].obj, recs[i].key>>}, LAMBDA d :
            IF r.outcome = "next"
            THEN ScanKeys(r.self, recs, i + 1, frame, d)
            ELSE [self |-> r.self, outcome |-> r.outcome, dispatched |-> d]))

Integrate(self) ==
    LET v == Vec(self.velocity.x + self.acceleration.x,
                 self.velocity.y + self.acceleration.y,
                 self.velocity.z + self.acceleration.z)
    IN  [self EXCEPT !.velocity = v,
                     !.position = Vec(self.position.x + v.x,
                                      self.position.y + v.y,
                                      self.position.z + v.z)]

Snapshot(self) ==
    [self EXCEPT !.prev_acceleration = self.acceleration,
                 !.prev_velocity = self.velocity,
                 !.prev_position = self.position]

GroundClamp(self) ==
    IF self.position.y < 0
    THEN [self EXCEPT !.position.y = 0, !.velocity.y = 0, !.acceleration.y = 0]
    ELSE self

\* one entry of the scan log: which function scanned which frame, and what it dispatched
Logged(self, fn, frame, dispatched) ==
    [self EXCEPT !.log = Append(self.log,
        [fn |-> fn, frame |-> frame, dispatched |-> dispatched])]

\* the end of update_position, by the way the scan ended
AfterScan(self, outcome) ==
    CASE outcome = "panic" -> [self EXCEPT !.panicked = TRUE]
      [] outcome = "return" -> self
      [] OTHER -> GroundClamp(Snapshot(self))

update_position(self, frame) ==
    Bind(IF self.asset = <<>>
         THEN [self |-> Integrate(self), outcome |-> "next", dispatched |-> {}]
         ELSE ScanKeys(Integrate(self), ActiveRecords(SelectedAction(self), frame),
                       1, frame, {}),
         LAMBDA r : AfterScan(Logged(r.self, "update_position", frame, r.dispatched),
                              r.outcome))

(***************************************************************************)
(* Table lookups.  Positions are 0-based as in the source; a Rust index    *)
(* outside the vector, or a usize subtraction below zero, is a panic.      *)
(* Identifiers of the assets are in 0..2^31-1, where `as u32` keeps the    *)
(* value.                                                                  *)
(***************************************************************************)
\* for (n, x) in seq.iter().enumerate() { if x == v { found = n + shift } }, from 0
RECURSIVE ScanAssign(_, _, _, _, _)
ScanAssign(seq, v, shift, n, found) ==
    IF n >= Len(seq) THEN found
    ELSE ScanAssign(seq, v, shift, n + 1, IF seq[n + 1] = v THEN n + shift ELSE found)

\* let mut data_index = 0; for (n, data_id) in data_id_table ... data_index = n
TableIndex(fchar, data_type) == ScanAssign(fchar.data_id_table, data_type, 0, 0, 0)

InBounds(seq, i) == i >= 0 /\ i < Len(seq)

BoxResult(boxes, panic) == [boxes |-> boxes, panicked |-> panic]

ReadInt16(value) == IF value.t = "Int16" THEN value.v ELSE 0

\* mutant: the record is read whatever the id scan found
BoxLookupMissed_never(index) == FALSE

\* the check between the id scan and the record read of index_to_box
BoxLookupMissed(index) == index = 0

\* mutant: the first record of the stride block is read
BoxRecordPosition_first(index) == (index - 1) * BoxStride

\* the position read in data_rsz.data: index * 6 - 1
BoxRecordPosition(index) == index * BoxStride - 1

index_to_box(fchar, int, data_type, boxes) ==
    LET data_index == TableIndex(fchar, data_type)
    IN  IF ~InBounds(fchar.data_list_table, data_index) THEN BoxResult(boxes, TRUE)
        ELSE
        LET table == fchar.data_list_table[data_index + 1]
            index == ScanAssign(table.data_ids, int, 1, 0, 0)
        IN  IF BoxLookupMissed(index) THEN BoxResult(boxes, FALSE)
            ELSE IF ~InBounds(table.data_rsz, BoxRecordPosition(index))
            THEN BoxResult(boxes, TRUE)
            ELSE
            LET data == table.data_rsz[BoxRecordPosition(index) + 1]
            IN  IF Len(data.fields) < 4 THEN BoxResult(boxes, TRUE)
                ELSE BoxResult(Append(boxes,
                        [x |-> ReadInt16(Field(data, 0)),
                         y |-> ReadInt16(Field(data, 1)),
                         width |-> ReadInt16(Field(data, 2)),
                         height |-> ReadInt16(Field(data, 3))]), FALSE)

\* for v in list { match v { Int32(int) => index_to_box(.., int, data_type, boxes) } }
RECURSIVE BoxesOfList(_, _, _, _, _)
BoxesOfList(fchar, list, i, data_type, acc) ==
    IF acc.panicked \/ i > Len(list) THEN acc
    ELSE BoxesOfList(fchar, list, i + 1, data_type,
            IF list[i].t = "Int32"
            THEN index_to_box(fchar, list[i].v, data_type, acc.boxes)
            ELSE acc)

ReadList(value) == IF value.t = "List" THEN value.v ELSE <<>>
ReadAs(value, tag) == IF value.t = tag THEN value.v ELSE 0

(***************************************************************************)
(* get_boxes: the three key lists are cleared and rebuilt from the records *)
(* covering current_frame - 1.                                             *)
(***************************************************************************)
PushKeyOf(self, fchar, data) ==
    Bind(IF Field(data, 2).t = "Int32"
         THEN index_to_box(fchar, Field(data, 2).v, "ThrowHurtBox", <<>>)
         ELSE BoxResult(<<>>, FALSE),
         LAMBDA r :
            IF r.panicked THEN [self EXCEPT !.panicked = TRUE]
            ELSE [self EXCEPT !.push_collision_keys = Append(@,
                    [condition |-> ReadAs(Field(data, 0), "UInt8"),
                     attribute |-> ReadAs(Field(data, 1), "UInt16"),
                     pushbox |-> IF Len(r.boxes) > 0 THEN r.boxes[1]
                                 ELSE [x |-> 0, y |-> 0, width |-> 0, height |-> 0]])])

\* mutant: the leg list is resolved before the head and body lists
DamageBoxes_legfirst(fchar, data) ==
    BoxesOfList(fchar, ReadList(Field(data, 10)), 1, "HurtBox",
        BoxesOfList(fchar, ReadList(Field(data, 9)), 1, "HurtBox",
            BoxesOfList(fchar, ReadList(Field(data, 11)), 1, "HurtBox",
                        BoxResult(<<>>, FALSE))))

\* the head, body and leg id lists, resolved in that order into one box list
DamageBoxes(fchar, data) ==
    BoxesOfList(fchar, ReadList(Field(data, 11)), 1, "HurtBox",
        BoxesOfList(fchar, ReadList(Field(data, 10)), 1, "HurtBox",
            BoxesOfList(fchar, ReadList(Field(data, 9)), 1, "HurtBox",
                        BoxResult(<<>>, FALSE))))

DamageKeyOf(self, fchar, data) ==
    Bind(DamageBoxes(fchar, data), LAMBDA r :
        IF r.panicked THEN [self EXCEPT !.panicked = TRUE]
        ELSE [self EXCEPT !.damage_collision_keys = Append(@,
                [condition |-> ReadAs(Field(data, 0), "UInt8"),
                 collision_type |-> ReadAs(Field(data, 1), "UInt8"),
                 immune |-> ReadAs(Field(data, 2), "UInt8"),
                 extend |-> ReadAs(Field(data, 3), "UInt8"),
                 level |-> ReadAs(Field(data, 4), "UInt8"),
                 type_flag |-> ReadAs(Field(data, 5), "UInt32"),
                 boxes |-> r.boxes])])

AttackKeyOf(self, fchar, data) ==
    Bind(BoxesOfList(fchar, ReadList(Field(data, 11)), 1,
                     IF ReadAs(Field(data, 1), "UInt8") = 3
                     THEN "ProximityBox" ELSE "StrikeBox",
                     BoxResult(<<>>, FALSE)),
         LAMBDA r :
            IF r.panicked THEN [self EXCEPT !.panicked = TRUE]
            ELSE [self EXCEPT !.attack_collision_keys = Append(@,
                    [condition |-> ReadAs(Field(data, 0), "UInt8"),
                     collision_type |-> ReadAs(Field(data, 1), "UInt8"),
                     hit_id |-> ReadAs(Field(data, 2), "Int8"),
                     guard_bit |-> ReadAs(Field(data, 3), "UInt8"),
                     kind_flag |-> ReadAs(Field(data, 4), "UInt32"),
                     hit_offset |-> IF Field(data, 4).t = "Int2"
                                    THEN Field(data, 4).v ELSE <<0, 0>>,
                     boxes |-> r.boxes])])

BoxKeyOf(self, fchar, data) ==
    CASE data.name = "CharacterAsset.PushCollisionKey" -> PushKeyOf(self, fchar, data)
      [] data.name = "CharacterAsset.DamageCollisionKey" -> DamageKeyOf(self, fchar, data)
      [] data.name = "CharacterAsset.AttackCollisionKey" -> AttackKeyOf(self, fchar, data)
      [] OTHER -> self

RECURSIVE ScanBoxes(_, _, _, _)
ScanBoxes(self, fchar, recs, i) ==
    IF self.panicked \/ i > Len(recs) THEN self
    ELSE ScanBoxes(BoxKeyOf(self, fchar, recs[i].data), fchar, recs, i + 1)

Positions(recs) == { <<recs[i].obj, recs[i].key>> : i \in 1..Len(recs) }

\* mutant: the lists are not cleared
ClearBoxLists_kept(self) == self

\* the three clear() calls that open get_boxes
ClearBoxLists(self) ==
    [self EXCEPT !.push_collision_keys = <<>>,
                 !.damage_collision_keys = <<>>,
                 !.attack_collision_keys = <<>>]

\* mutant: the boxes are scanned at key frame current_frame
get_boxes_ahead(self) ==
    IF self.asset = <<>> THEN ClearBoxLists(self)
    ELSE Bind(ActiveRecords(SelectedAction(self), self.current_frame), LAMBDA recs :
            ScanBoxes(Logged(ClearBoxLists(self), "get_boxes", self.current_frame,
                             Positions(recs)),
                      self.asset[1], recs, 1))

get_boxes(self) ==
    IF self.asset = <<>> THEN ClearBoxLists(self)
    ELSE Bind(ActiveRecords(SelectedAction(self), self.current_frame - 1), LAMBDA recs :
            ScanBoxes(Logged(ClearBoxLists(self), "get_boxes", self.current_frame - 1,
                             Positions(recs)),
                      self.asset[1], recs, 1))

(***************************************************************************)
(* Trigger expansion.                                                      *)
(***************************************************************************)
\* #[derive(Ord)] on Trigger { action, condition_flag }: lexicographic, fields in order
TriggerLess(a, b) ==
    \/ a.action < b.action
    \/ a.action = b.action /\ a.condition_flag < b.condition_flag

RECURSIVE InsertSorted(_, _)
InsertSorted(sorted, t) ==
    IF sorted = <<>> THEN <<t>>
    ELSE IF TriggerLess(t, Head(sorted)) THEN <<t>> \o sorted
    ELSE <<Head(sorted)>> \o InsertSorted(Tail(sorted), t)

\* Vec::sort_unstable: ascending by Ord (equal triggers are indistinguishable)
RECURSIVE sort_unstable(_)
sort_unstable(list) ==
    IF list = <<>> THEN <<>>
    ELSE InsertSorted(sort_unstable(Tail(list)), Head(list))

\* Vec::dedup: drops every element equal to the one before it
RECURSIVE dedup(_)
dedup(list) ==
    IF Len(list) <= 1 THEN list
    ELSE IF list[1] = list[2] THEN dedup(Tail(list))
    ELSE <<list[1]>> \o dedup(Tail(list))

\* the set bits of one mask in BitVec (Lsb0) iteration order
RECURSIVE BitsAscending(_, _)
BitsAscending(bits, bit_index) ==
    IF bit_index >= MaskWidth THEN <<>>
    ELSE (IF bit_index \in bits THEN <<bit_index>> ELSE <<>>)
         \o BitsAscending(bits, bit_index + 1)

\* the body of the bit loop of get_triggers for one set bit
TriggerOfBit(self, fchar, trigger_index, bit_index, condition_flag) ==
    LET data_index == TableIndex(fchar, "Trigger")
    IN  IF ~InBounds(fchar.data_list_table, data_index)
        THEN [self EXCEPT !.panicked = TRUE]
        ELSE
        LET table == fchar.data_list_table[data_index + 1]
            index == ScanAssign(table.data_ids, bit_index + trigger_index * MaskWidth, 1, 0, 0)
        IN  IF ~InBounds(table.data_rsz, index * TriggerStride - 1)
            THEN [self EXCEPT !.panicked = TRUE]
            ELSE
            LET trigger == table.data_rsz[index * TriggerStride]
            IN  IF Len(trigger.fields) < 6 THEN [self EXCEPT !.panicked = TRUE]
                ELSE [self EXCEPT !.triggers = Append(@,
                        [action |-> ReadAs(Field(trigger, 5), "Int32"),
                         condition_flag |-> condition_flag])]

RECURSIVE ScanBits(_, _, _, _, _, _)
ScanBits(self, fchar, trigger_index, bits, i, condition_flag) ==
    IF self.panicked \/ i > Len(bits) THEN self
    ELSE ScanBits(TriggerOfBit(self, fchar, trigger_index, bits[i], condition_flag),
                  fchar, trigger_index, bits, i + 1, condition_flag)

RECURSIVE ScanMasks(_, _, _, _, _)
ScanMasks(self, fchar, masks, trigger_index, condition_flag) ==
    IF self.panicked \/ trigger_index >= Len(masks) THEN self
    ELSE ScanMasks(ScanBits(self, fchar, trigger_index,
                            BitsAscending(masks[trigger_index + 1], 0), 1, condition_flag),
                   fchar, masks, trigger_index + 1, condition_flag)

\* for select_trigger in list { match { UInt64(ulong) => triggers.push(ulong) } }
RECURSIVE MasksOf(_, _)
MasksOf(list, i) ==
    IF i > Len(list) THEN <<>>
    ELSE (IF list[i].t = "UInt64" THEN <<list[i].v>> ELSE <<>>) \o MasksOf(list, i + 1)

get_triggers(self, group, condition_flag) ==
    IF self.asset = <<>> THEN self
    ELSE
    LET fchar == self.asset[1]
        data_index == TableIndex(fchar, "TriggerGroup")
    IN  IF ~InBounds(fchar.data_list_table, data_index)
        THEN [self EXCEPT !.panicked = TRUE]
        ELSE
        LET table == fchar.data_list_table[data_index + 1]
            index == ScanAssign(table.data_ids, group, 0, 0, 0)
        IN  IF index = 0 THEN self
            ELSE IF ~InBounds(table.data_rsz, index) THEN [self EXCEPT !.panicked = TRUE]
            ELSE
            LET trigger_group == table.data_rsz[index + 1]
            IN  IF Len(trigger_group.fields) < 2 THEN [self EXCEPT !.panicked = TRUE]
                ELSE ScanMasks(self, fchar,
                               MasksOf(ReadList(Field(trigger_group, 1)), 1),
                               0, condition_flag)

\* the scan of get_trigger_keys: the two pending vectors, pushed independently
RECURSIVE PendingOf(_, _, _)
PendingOf(recs, i, acc) ==
    IF i > Len(recs) THEN acc
    ELSE LET data == recs[i].data
         IN  IF data.name = "CharacterAsset.TriggerKey"
             THEN PendingOf(recs, i + 1,
                    [groups |-> acc.groups \o
                        (IF Field(data, 0).t = "Int32" THEN <<Field(data, 0).v>> ELSE <<>>),
                     condition_flags |-> acc.condition_flags \o
                        (IF Field(data, 1).t = "UInt32" THEN <<Field(data, 1).v>> ELSE <<>>)])
             ELSE PendingOf(recs, i + 1, acc)

\* for (index, group) in groups { get_triggers(group, condition_flags[index]) }
RECURSIVE ExpandPending(_, _, _)
ExpandPending(self, pending, index) ==
    IF self.panicked \/ index >= Len(pending.groups) THEN self
    ELSE IF ~InBounds(pending.condition_flags, index)
    THEN [self EXCEPT !.panicked = TRUE]
    ELSE ExpandPending(
            get_triggers(self, pending.groups[index + 1], pending.condition_flags[index + 1]),
            pending, index + 1)

SortDedup(list) == dedup(sort_unstable(list))

\* the tail of get_trigger_keys: sort_unstable then dedup
SortTriggers(self) ==
    IF self.panicked THEN self ELSE [self EXCEPT !.triggers = SortDedup(self.triggers)]

\* get_trigger_keys once the covering records are known
TriggerKeysOf(self, recs) ==
    SortTriggers(ExpandPending([self EXCEPT !.triggers = <<>>],
        PendingOf(recs, 1, [groups |-> <<>>, condition_flags |-> <<>>]), 0))

get_trigger_keys(self) ==
    IF self.asset = <<>> THEN [self EXCEPT !.triggers = <<>>]
    ELSE Bind(ActiveRecords(SelectedAction(self), self.current_frame - 1), LAMBDA recs :
            TriggerKeysOf(Logged(self, "get_trigger_keys", self.current_frame - 1,
                                 Positions(recs)), recs))

(***************************************************************************)
(* The recompute block of Viewer::ui.                                      *)
(***************************************************************************)
DefaultActionInfo ==
    [first_active_frame |-> 0, recovery_frame |-> 0, end_frame |-> 0, loop_count |-> 0]

get_action_info(self) ==
    IF self.asset = <<>> THEN self
    ELSE
    LET action == SelectedAction(self)
        action_frame == action.data[1]
        action_state == action.data[2]
        keep(value, old) == IF value.t = "Int32" THEN value.v ELSE old
    IN  [self EXCEPT
            !.action_info.first_active_frame = keep(Field(action_frame, 0), @),
            !.action_info.recovery_frame = keep(Field(action_frame, 1), @),
            !.action_info.end_frame = keep(Field(action_frame, 2), @),
            !.action_info.loop_count = keep(Field(action_state, 0), @)]

\* self.action_info = Default::default() ahead of get_action_info
ResetActionInfo(self) == [self EXCEPT !.action_info = DefaultActionInfo]

\* mutant: the replay resumes from the vectors left by the previous recompute
ResetKinematics_resumed(self) == self

\* the seven Default::default() assignments ahead of the replay loop
ResetKinematics(self) ==
    [self EXCEPT !.position = ZeroVec, !.velocity = ZeroVec, !.acceleration = ZeroVec,
                 !.prev_position = ZeroVec, !.prev_velocity = ZeroVec,
                 !.prev_acceleration = ZeroVec, !.root_motion = ZeroVec]

\* for frame in from..to { self.update_position(frame) }
RECURSIVE ReplayLoop(_, _, _)
ReplayLoop(self, from, to) ==
    IF self.panicked \/ from >= to THEN self
    ELSE ReplayLoop(update_position(self, from), from + 1, to)

\* mutant: the replay range is 0..self.current_frame
ReplayEnd_inclusive(self) == self.current_frame

\* the exclusive end of the replay range 0..self.current_frame - 1
ReplayEnd(self) == self.current_frame - 1

\* mutant: the block runs on every pass
NeedsRecompute_always(self) == TRUE

\* the guard of the recompute block
NeedsRecompute(self) == self.should_update

\* the replay loop; usize: 0 - 1 underflows
Replay(self) ==
    IF self.current_frame = 0 THEN [self EXCEPT !.panicked = TRUE]
    ELSE ReplayLoop(self, 0, ReplayEnd(self))

\* a step of the block runs unless an earlier one panicked
ThenBoxes(self) == IF self.panicked THEN self ELSE get_boxes(self)
ThenTriggerKeys(self) == IF self.panicked THEN self ELSE get_trigger_keys(self)
ThenFresh(self) == IF self.panicked THEN self ELSE [self EXCEPT !.should_update = FALSE]

Recompute(self) ==
    ThenFresh(ThenTriggerKeys(ThenBoxes(Replay(ResetKinematics(get_action_info(
        ResetActionInfo(
            Logged([self EXCEPT !.log = <<>>], "recompute", self.current_frame, {}))))))))

(***************************************************************************)
(* The text of the search box: a sequence of characters, parsed as         *)
(* str::parse::<i32> does (optional sign, then one or more decimal digits, *)
(* nothing else, value within i32).                                        *)
(***************************************************************************)
Digits == <<"0", "1", "2", "3", "4", "5", "6", "7", "8", "9">>
IsDigit(c) == \E d \in 1..Len(Digits) : Digits[d] = c
DigitValue(c) == (CHOOSE d \in 1..Len(Digits) : Digits[d] = c) - 1
I32Max == 2147483647

\* checked_mul(10) then checked_add / checked_sub of the digit
RECURSIVE ParseDigits(_, _, _, _)
ParseDigits(text, i, sign, acc) ==
    IF i > Len(text) THEN <<acc>>
    ELSE IF ~IsDigit(text[i]) THEN <<>>
    ELSE IF acc > (I32Max \div 10) \/ acc < -(I32Max \div 10) THEN <<>>
    ELSE IF sign = 1 /\ acc = (I32Max \div 10) /\ DigitValue(text[i]) > (I32Max % 10) THEN <<>>
    ELSE IF sign = -1 /\ acc = -(I32Max \div 10) /\ DigitValue(text[i]) > (I32Max % 10) + 1
    THEN <<>>
    ELSE ParseDigits(text, i + 1, sign, acc * 10 + sign * DigitValue(text[i]))

parse_i32(text) ==
    IF text = <<>> THEN <<>>
    ELSE IF text[1] \in {"+", "-"}
    THEN (IF Len(text) = 1 THEN <<>>
          ELSE ParseDigits(text, 2, IF text[1] = "-" THEN -1 ELSE 1, 0))
    ELSE ParseDigits(text, 1, 1, 0)

\* mutant: a click selects the action without rewinding the frame counter
SelectClicked_keepframe(self, index) ==
    [self EXCEPT !.selected_index = index,
                 !.action_index = self.asset[1].action_list[index + 1].action_id,
                 !.should_update = TRUE]

\* the selection made by a click on entry `index` of the action list
SelectClicked(self, index) ==
    [self EXCEPT !.selected_index = index,
                 !.action_index = self.asset[1].action_list[index + 1].action_id,
                 !.should_update = TRUE,
                 !.current_frame = 1]

\* mutant: a search hit selects the action without rewinding the frame counter
RECURSIVE SearchLoop_keepframe(_, _, _)
SearchLoop_keepframe(self, text, index) ==
    IF index >= Len(self.asset[1].action_list) THEN self
    ELSE LET action_id == self.asset[1].action_list[index + 1].action_id
             parsed == parse_i32(text)
         IN  SearchLoop_keepframe(
                IF text # <<>> /\ parsed # <<>> /\ parsed[1] = action_id
                THEN [self EXCEPT !.selected_index = index,
                                  !.action_index = action_id,
                                  !.should_update = TRUE]
                ELSE self,
                text, index + 1)

\* the loop run when the search box is submitted: every action is compared in turn
RECURSIVE SearchLoop(_, _, _)
SearchLoop(self, text, index) ==
    IF index >= Len(self.asset[1].action_list) THEN self
    ELSE LET action_id == self.asset[1].action_list[index + 1].action_id
             parsed == parse_i32(text)
         IN  SearchLoop(
                IF text # <<>> /\ parsed # <<>> /\ parsed[1] = action_id
                THEN [self EXCEPT !.selected_index = index,
                                  !.action_index = action_id,
                                  !.should_update = TRUE,
                                  !.current_frame = 1]
                ELSE self,
                text, index + 1)

\* the slider: the user moved it to `slide` (0: not touched); clamp_to_range
\* keeps the value written within 1..=frames
\* mutant: the slider writes the frame without raising should_update
SliderMoved_silent(self, slide) ==
    IF slide = 0 \/ self.asset = <<>> THEN self
    ELSE [self EXCEPT !.current_frame = slide]

SliderMoved(self, slide) ==
    IF slide = 0 \/ self.asset = <<>> THEN self
    ELSE IF self.current_frame # slide
    THEN [self EXCEPT !.current_frame = slide, !.should_update = TRUE]
    ELSE self

\* the head of Viewer::ui, the action list and the search box: clicked is the
\* entry clicked (-1: none), entered is <<text>> when the search box was
\* submitted (<<>>: not)
UiSelect(self, clicked, entered) ==
    IF entered # <<>>
    THEN SearchLoop(IF clicked # -1 THEN SelectClicked(self, clicked) ELSE self,
                    entered[1], 0)
    ELSE IF clicked # -1 THEN SelectClicked(self, clicked) ELSE self

\* the recompute block, entered when an action is selected
UiRecompute(self) ==
    IF self.selected_index # -1 /\ NeedsRecompute(self) THEN Recompute(self) ELSE self

\* the slider row, drawn when an action is selected; slide is the slider value
\* set by the user (0: not touched)
UiSlider(self, slide) ==
    IF self.selected_index # -1 /\ ~self.panicked THEN SliderMoved(self, slide) ELSE self

\* one pass of Viewer::ui
ui(self, clicked, entered, slide) ==
    UiSlider(UiRecompute(UiSelect(self, clicked, entered)), slide)

(***************************************************************************)
(* open_fchar.  parse_fchar belongs to the parser crate: a buffer either   *)
(* fails to parse or yields one of the assets below.                       *)
(***************************************************************************)
HurtBoxes1 ==
    Table(<<10, 20, 30>>,
          Strided(<<BoxRecord(1, 2, 3, 4), BoxRecord(5, 6, 7, 8), BoxRecord(9, 10, 11, 12)>>,
                  BoxStride))
StrikeBoxes1 ==
    Table(<<1, 2>>, Strided(<<BoxRecord(20, 30, 5, 5), BoxRecord(25, 35, 6, 6)>>, BoxStride))
ProximityBoxes1 == Table(<<1>>, Strided(<<BoxRecord(40, 30, 15, 15)>>, BoxStride))
ThrowHurtBoxes1 == Table(<<1>>, Strided(<<BoxRecord(0, 40, 10, 40)>>, BoxStride))
Triggers1 ==
    Table(<<0, 1, 2, 64>>,
          Strided(<<TriggerRecord(Int32(100)), TriggerRecord(Int32(101)),
                    TriggerRecord(Int32(100)), TriggerRecord(Int32(102))>>, TriggerStride))
TriggerGroups1 ==
    Table(<<0, 1, 2, 3>>,
          << TriggerGroupRecord(List(<<UInt64({0})>>)),
             TriggerGroupRecord(List(<<UInt64({0, 1, 2})>>)),
             TriggerGroupRecord(List(<<UInt64({1}), UInt64({0})>>)),
             TriggerGroupRecord(List(<<UInt64({0, 5})>>)) >>)

\* frame_count 10, one SteerKey on [0,1): velocity.y := 5
JumpAction ==
    Action(7, 10, Header(Int32(3), Int32(5), Int32(8), Int32(0)),
           << Object(<<Key(0, 1)>>, <<1>>,
                     <<SteerKey(UInt8(Set), UInt8(VelocityY), Float(5))>>) >>)

\* a hop under gravity with a root-motion track of two samples
HopAction ==
    Action(12, 5, Header(Bool(TRUE), Int32(2), Int32(4), Int32(-1)),
           << Object(<<Key(0, 1), Key(0, 5)>>, <<1, 2>>,
                     <<SteerKey(UInt8(Set), UInt8(VelocityY), Float(1)),
                       SteerKey(UInt8(Set), UInt8(AccelerationY), Float(-1))>>),
              Object(<<Key(0, 3)>>, <<1>>,
                     <<PlaceKey(UInt8(0), List(<<Float(3), Float(4)>>))>>),
              Object(<<Key(2, 4), Key(1, 5)>>, <<1, 2>>,
                     <<SteerKey(UInt8(Add), UInt8(VelocityX), Float(2)),
                       SteerKey(UInt8(SetNegativeX), UInt8(VelocityX), Float(0))>>) >>)

\* collision boxes and cancels; the last two TriggerKeys of the second object
\* carry a field of an unexpected variant
StrikeAction ==
    Action(12, 7, Header(Int32(3), Int32(6), Int32(7), Int32(0)),
           << Object(<<Key(0, 7), Key(3, 6), Key(0, 3), Key(6, 7)>>, <<1, 2, 3, 4>>,
                     <<PushCollisionKey(UInt8(1), UInt16(2), Int32(1)),
                       DamageCollisionKey(UInt8(1), UInt8(0), UInt32(3),
                            List(<<Int32(10), Int32(99)>>), List(<<Int32(20)>>),
                            List(<<Int32(30), Int32(98)>>)),
                       AttackCollisionKey(UInt8(1), UInt8(3), Int8(-1), UInt32(4),
                            List(<<Int32(1)>>)),
                       AttackCollisionKey(UInt8(1), UInt8(0), Int8(0), Int2(1, 2),
                            List(<<Int32(2), Int32(7)>>))>>),
              Object(<<Key(0, 2), Key(1, 4), Key(1, 2), Key(0, 7), Key(4, 6), Key(4, 6)>>,
                     <<1, 2, 1, 3, 4, 5>>,
                     <<TriggerKey(Int32(1), UInt32(1)),
                       TriggerKey(Int32(2), UInt32(2)),
                       OtherKey,
                       TriggerKey(Bool(TRUE), UInt32(4)),
                       TriggerKey(Int32(1), UInt32(8))>>) >>)

\* cancels of a group one of whose mask bits names no Trigger id
TauntAction ==
    Action(30, 3, Header(Int32(-1), Int32(-1), Int32(2), Int32(0)),
           << Object(<<Key(1, 3)>>, <<1>>,
                     <<TriggerKey(Int32(3), UInt32(1))>>) >>)

KindTable ==
    <<"HurtBox", "StrikeBox", "ProximityBox", "ThrowHurtBox", "Trigger", "TriggerGroup">>

Asset1 ==
    [data_id_table |-> KindTable,
     data_list_table |-> <<HurtBoxes1, StrikeBoxes1, ProximityBoxes1, ThrowHurtBoxes1,
                           Triggers1, TriggerGroups1>>,
     action_list |-> <<JumpAction, HopAction, StrikeAction, TauntAction>>]

WalkAction ==
    Action(7, 3, Header(Int32(0), Bool(FALSE), Int32(3), Int32(-1)),
           << Object(<<Key(0, 3), Key(0, 3), Key(0, 1)>>, <<1, 2, 3>>,
                     <<SteerKey(UInt8(Add), UInt8(VelocityX), Float(1)),
                       PushCollisionKey(UInt8(0), UInt16(0), Int32(5)),
                       TriggerKey(Int32(1), UInt32(2))>>) >>)

\* a SteerKey whose operation byte is no SteerOperationType discriminant
GlitchAction ==
    Action(41, 2, Header(Int32(0), Int32(1), Int32(2), Int32(0)),
           << Object(<<Key(0, 2)>>, <<1>>,
                     <<SteerKey(UInt8(SetInheritXYZ + 1), UInt8(VelocityY), Float(5))>>) >>)

\* two TriggerKeys, the first, active from frame 1, with a condition flag of an
\* unexpected variant
FeintAction ==
    Action(50, 3, Header(Int32(1), Int32(2), Int32(3), Int32(0)),
           << Object(<<Key(1, 3), Key(0, 3)>>, <<1, 2>>,
                     <<TriggerKey(Int32(1), Int32(7)),
                       TriggerKey(Int32(2), UInt32(4))>>) >>)

Asset2 ==
    [data_id_table |-> KindTable,
     data_list_table |-> <<HurtBoxes1, StrikeBoxes1, ProximityBoxes1, ThrowHurtBoxes1,
                           Triggers1, TriggerGroups1>>,
     action_list |-> <<WalkAction, GlitchAction, FeintAction>>]

Assets == <<Asset1, Asset2>>
\* buffer 0 does not parse; buffer b > 0 holds Assets[b]
Buffers == 0..Len(Assets)
parse_fchar(buffer) == IF buffer \in 1..Len(Assets) THEN <<Assets[buffer]>> ELSE <<>>

\* mutant: a successful load selects the last action of the asset loaded before
open_fchar_stale(self, buffer) ==
    LET fchar == parse_fchar(buffer)
    IN  IF fchar # <<>>
        THEN [self EXCEPT !.asset = fchar,
                          !.selected_index = IF self.asset = <<>> THEN -1
                                             ELSE Len(self.asset[1].action_list) - 1,
                          !.action_index = 0,
                          !.current_frame = 1]
        ELSE self

\* mutant: a successful load keeps the selection
open_fchar_selected(self, buffer) ==
    IF parse_fchar(buffer) # <<>>
    THEN [self EXCEPT !.asset = parse_fchar(buffer), !.action_index = 0, !.current_frame = 1]
    ELSE self

\* the bool open_fchar returns: true on Ok, false on Err
open_fchar_returns(buffer) == parse_fchar(buffer) # <<>>

open_fchar(self, buffer) ==
    LET fchar == parse_fchar(buffer)
    IN  IF fchar # <<>>
        THEN [self EXCEPT !.asset = fchar,
                          !.selected_index = -1,
                          !.action_index = 0,
                          !.current_frame = 1]
        ELSE self

(***************************************************************************)
(* The Viewer as a record, and the state machine.  log is the scan log of  *)
(* the pass: it is empty unless the recompute block ran.                   *)
(***************************************************************************)
Self ==
    [asset |-> asset, selected_index |-> selected_index, action_index |-> action_index,
     current_frame |-> current_frame, should_update |-> should_update,
     action_info |-> action_info, push_collision_keys |-> push_collision_keys,
     damage_collision_keys |-> damage_collision_keys,
     attack_collision_keys |-> attack_collision_keys, triggers |-> triggers,
     position |-> position, velocity |-> velocity, acceleration |-> acceleration,
     prev_position |-> prev_position, prev_velocity |-> prev_velocity,
     prev_acceleration |-> prev_acceleration, root_motion |-> root_motion,
     panicked |-> panicked, log |-> <<>>]

Store(w) ==
    /\ asset' = w.asset
    /\ selected_index' = w.selected_index
    /\ action_index' = w.action_index
    /\ current_frame' = w.current_frame
    /\ should_update' = w.should_update
    /\ action_info' = w.action_info
    /\ push_collision_keys' = w.push_collision_keys
    /\ damage_collision_keys' = w.damage_collision_keys
    /\ attack_collision_keys' = w.attack_collision_keys
    /\ triggers' = w.triggers
    /\ position' = w.position
    /\ velocity' = w.velocity
    /\ acceleration' = w.acceleration
    /\ prev_position' = w.prev_position
    /\ prev_velocity' = w.prev_velocity
    /\ prev_acceleration' = w.prev_acceleration
    /\ root_motion' = w.root_motion
    /\ panicked' = w.panicked

\* texts the user may submit in the search box
Texts ==
    { <<>>, <<"7">>, <<"1", "2">>, <<"+", "3", "0">>, <<"9">>, <<"x">> }

LookupHits(self, text) ==
    /\ text # <<>>
    /\ parse_i32(text) # <<>>
    /\ \E i \in 1..Len(self.asset[1].action_list) :
            self.asset[1].action_list[i].action_id = parse_i32(text)[1]

NoPass ==
    [op |-> "none", clicked |-> FALSE, lookup |-> "none", slider_changed |-> FALSE,
     stale_at_entry |-> FALSE, log |-> <<>>, returned |-> FALSE]

Init ==
    /\ asset = <<>>
    /\ selected_index = -1
    /\ action_index = 0
    /\ current_frame = 0
    /\ should_update = FALSE
    /\ action_info = DefaultActionInfo
    /\ push_collision_keys = <<>>
    /\ damage_collision_keys = <<>>
    /\ attack_collision_keys = <<>>
    /\ triggers = <<>>
    /\ position = ZeroVec
    /\ velocity = ZeroVec
    /\ acceleration = ZeroVec
    /\ prev_position = ZeroVec
    /\ prev_velocity = ZeroVec
    /\ prev_acceleration = ZeroVec
    /\ root_motion = ZeroVec
    /\ panicked = FALSE
    /\ pass = NoPass

\* SF6Simulator::update: a character was clicked, its buffer is opened
OpenFchar(buffer) ==
    /\ ~panicked
    /\ \E w \in {open_fchar(Self, buffer)} : Store(w)
    /\ pass' = [NoPass EXCEPT !.op = "open_fchar", !.stale_at_entry = should_update,
                              !.returned = open_fchar_returns(buffer)]

\* what the user can do in one pass: click an entry of the action list,
\* submit a text, and set the slider drawn for the selection to a frame in range
ClickChoices == IF asset = <<>> THEN {} ELSE -1..(Len(asset[1].action_list) - 1)
EnterChoices == {<<>>} \cup { <<t>> : t \in Texts }
SlideChoices(s) ==
    IF s.selected_index = -1 THEN {0}
    ELSE 0..s.asset[1].action_list[s.selected_index + 1].frames

\* SF6Simulator::update calls viewer.ui only when an asset is loaded
UiPass(clicked, entered) ==
    /\ ~panicked
    /\ asset # <<>>
    /\ \E s2 \in {UiSelect(Self, clicked, entered)} :
       \E s3 \in {UiRecompute(s2)} :
       \E slide \in SlideChoices(s3) :
       \E w \in {UiSlider(s3, slide)} :
           /\ Store(w)
           /\ pass' = [op |-> "ui",
                       clicked |-> clicked # -1,
                       lookup |-> IF entered = <<>> THEN "none"
                                  ELSE IF LookupHits(Self, entered[1]) THEN "hit"
                                  ELSE "miss",
                       slider_changed |-> /\ ~w.panicked
                                          /\ slide # 0
                                          /\ slide # s2.current_frame,
                       stale_at_entry |-> should_update,
                       log |-> w.log,
                       returned |-> FALSE]

Next ==
    \/ \E buffer \in Buffers : OpenFchar(buffer)
    \/ \E clicked \in ClickChoices, entered \in EnterChoices : UiPass(clicked, entered)

Spec == Init /\ [][Next]_vars

(***************************************************************************)
(* steer_key_to_value on its own: velocity.x and prev_velocity.x start at  *)
(* any value of SteerValues, and each step is the VelocityX arm of the     *)
(* SteerKey dispatch, velocity.x = steer_key_to_value(op_type, velocity.x, *)
(* prev_velocity.x, modify_value), for any operation type and modifier.    *)
(* pass records the arguments of the call.                                 *)
(***************************************************************************)
MaxMag == 3
SteerValues == (0 - MaxMag)..MaxMag
SteerOps == Nop..SetInheritXYZ

SteerInit ==
    /\ asset = <<>>
    /\ selected_index = -1
    /\ action_index = 0
    /\ current_frame = 0
    /\ should_update = FALSE
    /\ action_info = DefaultActionInfo
    /\ push_collision_keys = <<>>
    /\ damage_collision_keys = <<>>
    /\ attack_collision_keys = <<>>
    /\ triggers = <<>>
    /\ position = ZeroVec
    /\ \E v \in SteerValues : velocity = Vec(v, 0, 0)
    /\ acceleration = ZeroVec
    /\ prev_position = ZeroVec
    /\ \E v \in SteerValues : prev_velocity = Vec(v, 0, 0)
    /\ prev_acceleration = ZeroVec
    /\ root_motion = ZeroVec
    /\ panicked = FALSE
    /\ pass = [op |-> "none", op_type |-> Nop, in_value |-> 0, prev_value |-> 0,
               modify_value |-> 0]

SteerApply(op_type, modify_value) ==
    \E out \in {steer_key_to_value(op_type, velocity.x, prev_velocity.x, modify_value)} :
        /\ out \in (0 - MaxMag * MaxMag)..(MaxMag * MaxMag)
        /\ velocity' = [velocity EXCEPT !.x = out]
        /\ pass' = [op |-> "steer", op_type |-> op_type, in_value |-> velocity.x,
                    prev_value |-> prev_velocity.x, modify_value |-> modify_value]
        /\ UNCHANGED << asset, selected_index, action_index, current_frame, should_update,
                        action_info, push_collision_keys, damage_collision_keys,
                        attack_collision_keys, triggers, position, acceleration,
                        prev_position, prev_velocity, prev_acceleration, root_motion,
                        panicked >>

SteerNext == \E op_type \in SteerOps, modify_value \in SteerValues :
                SteerApply(op_type, modify_value)

SteerSpec == SteerInit /\ [][SteerNext]_vars

(***************************************************************************)
(* The SteerKey arm of update_position on its own, for the three           *)
(* SetNegative operations: the Viewer starts with velocity and             *)
(* acceleration of any signs and a previous-frame snapshot of one sign,    *)
(* and one SteerKey record with any target component and modifier is       *)
(* dispatched.  pass records the record's fields and the vectors before.   *)
(***************************************************************************)
Signs == {-1, 0, 1}
SignVecs == { Vec(a, b, c) : a \in Signs, b \in Signs, c \in Signs }
EvenVecs == { Vec(a, a, a) : a \in Signs }
SetNegativeOps == {SetNegativeX, SetNegativeY, SetNegativeZ}
SteerTargets == VelocityX..AccelerationZ

SetNegativeInit ==
    /\ asset = <<>>
    /\ selected_index = -1
    /\ action_index = 0
    /\ current_frame = 0
    /\ should_update = FALSE
    /\ action_info = DefaultActionInfo
    /\ push_collision_keys = <<>>
    /\ damage_collision_keys = <<>>
    /\ attack_collision_keys = <<>>
    /\ triggers = <<>>
    /\ position = ZeroVec
    /\ velocity \in SignVecs
    /\ acceleration \in SignVecs
    /\ prev_position = ZeroVec
    /\ prev_velocity \in EvenVecs
    /\ prev_acceleration = prev_velocity
    /\ root_motion = ZeroVec
    /\ panicked = FALSE
    /\ pass = [op |-> "none"]

SetNegativeKey(op_type, value_type, modify_value) ==
    /\ pass.op = "none"
    /\ \E r \in {ApplySteerKey(Self, SteerKey(UInt8(op_type), UInt8(value_type),
                                               Float(modify_value)))} :
        /\ Store(r.self)
        /\ pass' = [op |-> "steerkey", op_type |-> op_type, value_type |-> value_type,
                    modify_value |-> modify_value, outcome |-> r.outcome,
                    position |-> position, velocity |-> velocity,
                    acceleration |-> acceleration, prev_position |-> prev_position,
                    prev_velocity |-> prev_velocity,
                    prev_acceleration |-> prev_acceleration, root_motion |-> root_motion]

SetNegativeNext ==
    \E op_type \in SetNegativeOps, value_type \in SteerTargets, modify_value \in SteerValues :
        SetNegativeKey(op_type, value_type, modify_value)

SetNegativeSpec == SetNegativeInit /\ [][SetNegativeNext]_vars

(***************************************************************************)
(* Observations shared by the properties below.                            *)
(***************************************************************************)
\* the last step was a ui pass whose recompute block ran to its end
Recomputed == pass.op = "ui" /\ pass.log # <<>> /\ ~panicked
\* current_frame when that block ran (the slider may have moved it since)
RecomputeFrame == pass.log[1].frame

KinematicsOf(s) ==
    << s.position, s.velocity, s.acceleration,
       s.prev_position, s.prev_velocity, s.prev_acceleration, s.root_motion >>
DerivedOf(s) ==
    << KinematicsOf(s), s.action_info, s.push_collision_keys,
       s.damage_collision_keys, s.attack_collision_keys, s.triggers >>

\* a pass in which the user selected nothing, looked nothing up and left the frame
IdlePass(p) == p.op = "ui" /\ ~p.clicked /\ p.lookup = "none" /\ ~p.slider_changed

\* a Viewer fresh from Default::default() that was handed the asset, selection and frame
FreshViewer(a, sel, frame) ==
    [asset |-> a, selected_index |-> sel, action_index |-> 0,
     current_frame |-> frame, should_update |-> TRUE,
     action_info |-> DefaultActionInfo, push_collision_keys |-> <<>>,
     damage_collision_keys |-> <<>>, attack_collision_keys |-> <<>>, triggers |-> <<>>,
     position |-> ZeroVec, velocity |-> ZeroVec, acceleration |-> ZeroVec,
     prev_position |-> ZeroVec, prev_velocity |-> ZeroVec,
     prev_acceleration |-> ZeroVec, root_motion |-> ZeroVec,
     panicked |-> FALSE, log |-> <<>>]

(***************************************************************************)
(* C1: while Fresh with an action selected, a ui pass without selection,   *)
(* lookup or slider change leaves all derived state as it was, runs no     *)
(* recompute, and leaves the Viewer Fresh with the same selection (so the  *)
(* same holds of any number of such passes).                               *)
(***************************************************************************)
C1_IdempotentWhileFresh ==
    [][ (~should_update /\ selected_index # -1 /\ IdlePass(pass'))
        => /\ DerivedOf(Self)' = DerivedOf(Self)
           /\ pass'.log = <<>>
           /\ ~should_update'
           /\ selected_index' = selected_index
           /\ current_frame' = current_frame ]_vars

\* an idle pass over a Fresh Viewer that shows cancels and boxes
C1_Witness ==
    /\ IdlePass(pass) /\ ~pass.stale_at_entry /\ ~panicked
    /\ selected_index # -1 /\ ~should_update
    /\ triggers # <<>> /\ push_collision_keys # <<>>

(***************************************************************************)
(* C2: right after a recompute the derived state is the one a Viewer fresh *)
(* from its defaults computes for the same asset, selection and frame:     *)
(* nothing of the earlier history is left in it.                           *)
(***************************************************************************)
C2_HistoryIndependent ==
    Recomputed =>
        DerivedOf(Self) =
            DerivedOf(Recompute(FreshViewer(asset, selected_index, RecomputeFrame)))

\* a recompute that found the Viewer Stale from an earlier pass and rebuilt lists
C2_Witness ==
    /\ Recomputed /\ pass.stale_at_entry /\ RecomputeFrame > 1
    /\ push_collision_keys # <<>> /\ triggers # <<>>

(***************************************************************************)
(* C3: the Stale/Fresh protocol.  A ui pass with a combo click or an id    *)
(* lookup that hits recomputes within that pass, at frame 1; a pass whose  *)
(* slider changed the frame ends Stale; a Stale Viewer with an action      *)
(* selected recomputes in its next ui pass; Stale is left through a        *)
(* recompute only, and a recompute followed by no slider change ends Fresh.*)
(***************************************************************************)
C3_StaleFreshProtocol ==
    /\ []((pass.op = "ui" /\ (pass.clicked \/ pass.lookup = "hit"))
            => (pass.log # <<>> /\ RecomputeFrame = 1))
    /\ []((pass.op = "ui" /\ pass.slider_changed) => should_update)
    /\ []((Recomputed /\ ~pass.slider_changed) => ~should_update)
    /\ [][(should_update /\ pass'.op = "ui" /\ selected_index' # -1)
            => pass'.log # <<>>]_vars
    /\ [][(should_update /\ ~should_update') => pass'.log # <<>>]_vars

\* a recompute owed to nothing but the slider change of the pass before
C3_Witness ==
    /\ Recomputed /\ pass.stale_at_entry
    /\ ~pass.clicked /\ pass.lookup # "hit" /\ ~pass.slider_changed
    /\ ~should_update /\ RecomputeFrame > 1

(***************************************************************************)
(* C4: the kinematic state exposed after a recompute at frame F (replay of *)
(* frames 0..F-2) is the state reached by replaying 0..f1-1 from rest and  *)
(* going on with f1..F-2, for every split point f1.                        *)
(***************************************************************************)
AtRest(s) ==
    [s EXCEPT !.position = ZeroVec, !.velocity = ZeroVec, !.acceleration = ZeroVec,
              !.prev_position = ZeroVec, !.prev_velocity = ZeroVec,
              !.prev_acceleration = ZeroVec, !.root_motion = ZeroVec]

C4_ReplayCompositional ==
    Recomputed =>
        \A f1 \in 0..(RecomputeFrame - 1) :
            KinematicsOf(Self) =
                KinematicsOf(ReplayLoop(ReplayLoop(AtRest(Self), 0, f1),
                                        f1, RecomputeFrame - 1))

\* a replay of at least three frames that moved the character
C4_Witness ==
    /\ Recomputed /\ RecomputeFrame >= 4
    /\ position # ZeroVec /\ velocity # ZeroVec

(***************************************************************************)
(* C5: an action of 10 frames whose only key is a SteerKey on [0, 1) that  *)
(* Sets VelocityY to 5, from rest.  The claim as written: at controller    *)
(* frame 5 position.y is 20.                                               *)
(***************************************************************************)
IsJumpScenario ==
    /\ asset # <<>> /\ selected_index # -1
    /\ SelectedAction(Self).frames = 10
    /\ SelectedAction(Self).objects =
         << Object(<<Key(0, 1)>>, <<1>>,
                   <<SteerKey(UInt8(Set), UInt8(VelocityY), Float(5))>>) >>

C5_AsWritten ==
    (Recomputed /\ IsJumpScenario /\ RecomputeFrame = 5) => position.y = 20

(***************************************************************************)
(* C5 as the code has it: the controller at current_frame F has replayed   *)
(* frames 0..F-2, so position.y is 5 * (F - 2) for F >= 2 (15 at frame 5,  *)
(* 20 at frame 6), velocity.y stays 5 and acceleration.y stays 0.          *)
(***************************************************************************)
C5_JumpScenario ==
    (Recomputed /\ IsJumpScenario) =>
        /\ position.y = (IF RecomputeFrame >= 2 THEN 5 * (RecomputeFrame - 2) ELSE 0)
        /\ velocity.y = (IF RecomputeFrame >= 2 THEN 5 ELSE 0)
        /\ acceleration.y = 0
        /\ (RecomputeFrame = 5 => position.y = 15)
        /\ (RecomputeFrame = 6 => position.y = 20)

C5_Witness == Recomputed /\ IsJumpScenario /\ RecomputeFrame = 5 /\ position.y = 15

(***************************************************************************)
(* C6: after every update_position call position.y >= 0; when the value    *)
(* the call would leave is negative, position.y, velocity.y and            *)
(* acceleration.y are all 0; and a clamped triple stays 0 over a frame in  *)
(* which no SteerKey assigns velocity.y or acceleration.y.  Stated of the  *)
(* last call of a replay (the replay of F-1 frames ends with it).          *)
(***************************************************************************)
LastFrame == RecomputeFrame - 2
BeforeLast == ReplayLoop(AtRest(Self), 0, LastFrame)
UnclampedLast ==
    ScanKeys(Integrate(BeforeLast), ActiveRecords(SelectedAction(Self), LastFrame),
             1, LastFrame, {}).self
SteersY(frame) ==
    LET recs == ActiveRecords(SelectedAction(Self), frame)
    IN  \E i \in 1..Len(recs) :
            /\ recs[i].data.name = "CharacterAsset.SteerKey"
            /\ Field(recs[i].data, 1).v \in {VelocityY, AccelerationY}
GroundedTriple(s) == s.position.y = 0 /\ s.velocity.y = 0 /\ s.acceleration.y = 0

C6_GroundClamp ==
    (Recomputed /\ RecomputeFrame >= 2) =>
        /\ position.y >= 0
        /\ (UnclampedLast.position.y < 0 => GroundedTriple(Self))
        /\ ((GroundedTriple(BeforeLast) /\ ~SteersY(LastFrame)) => GroundedTriple(Self))

(***************************************************************************)
(* C7: in every frame scan of update_position, get_boxes and               *)
(* get_trigger_keys, the records dispatched are exactly those at the       *)
(* (object, key) positions with key_start_frame <= f < key_end_frame.      *)
(***************************************************************************)
HalfOpenPositions(action, f) ==
    UNION { { <<o, k>> : k \in { j \in 1..Len(action.objects[o].key_data) :
                                   /\ action.objects[o].key_data[j].key_start_frame <= f
                                   /\ f < action.objects[o].key_data[j].key_end_frame } }
            : o \in 1..Len(action.objects) }

C7_HalfOpenDispatch ==
    Recomputed =>
        \A i \in 2..Len(pass.log) :
            pass.log[i].dispatched = HalfOpenPositions(SelectedAction(Self), pass.log[i].frame)

(***************************************************************************)
(* C8: after get_trigger_keys the trigger list is strictly ascending by    *)
(* (action, condition_flag), expanding the same keys again gives the same  *)
(* list, and so does every reordering of the active TriggerKeys.           *)
(***************************************************************************)
IsTriggerKey(r) == r.data.name = "CharacterAsset.TriggerKey"
ActiveTriggerKeys ==
    SelectSeq(ActiveRecords(SelectedAction(Self), RecomputeFrame - 1), IsTriggerKey)
Reordered(recs, p) == [i \in 1..Len(recs) |-> recs[p[i]]]
StrictlyAscending(list) ==
    \A i \in 1..(Len(list) - 1) : TriggerLess(list[i], list[i + 1])

C8_TriggerListOrder ==
    Recomputed =>
        /\ StrictlyAscending(triggers)
        /\ TriggerKeysOf(TriggerKeysOf(Self, ActiveTriggerKeys), ActiveTriggerKeys).triggers
             = triggers
        /\ \A p \in Permutations(1..Len(ActiveTriggerKeys)) :
             LET again == TriggerKeysOf(Self, Reordered(ActiveTriggerKeys, p))
             IN  ~again.panicked /\ again.triggers = triggers

(***************************************************************************)
(* C9: for a box kind present in the asset and an identifier absent from   *)
(* that kind's data_ids, index_to_box returns without panicking and leaves *)
(* the destination list as it was.                                         *)
(***************************************************************************)
MaxId == 31
BoxKinds == {"HurtBox", "StrikeBox", "ProximityBox", "ThrowHurtBox"}
KindPresent(fchar, kind) ==
    \E n \in 1..Len(fchar.data_id_table) : fchar.data_id_table[n] = kind
IdsOf(fchar, kind) ==
    LET ids == fchar.data_list_table[TableIndex(fchar, kind) + 1].data_ids
    IN  { ids[n] : n \in 1..Len(ids) }
SomeBoxLists == { <<>>, <<[x |-> 1, y |-> 2, width |-> 3, height |-> 4]>> }

C9_BoxLookupMiss ==
    asset # <<>> =>
        \A kind \in BoxKinds :
            KindPresent(asset[1], kind) =>
                \A int \in (0..MaxId) \ IdsOf(asset[1], kind) :
                    \A boxes \in SomeBoxLists :
                        index_to_box(asset[1], int, kind, boxes) = BoxResult(boxes, FALSE)

\* a recompute whose DamageCollisionKey named a hurt box that does not exist
C9_Witness ==
    /\ Recomputed /\ damage_collision_keys # <<>>
    /\ LET recs == ActiveRecords(SelectedAction(Self), RecomputeFrame - 1)
       IN  \E i \in 1..Len(recs) :
              /\ recs[i].data.name = "CharacterAsset.DamageCollisionKey"
              /\ LET ids == ReadList(Field(recs[i].data, 9))
                 IN  \E n \in 1..Len(ids) : ids[n].v \notin IdsOf(asset[1], "HurtBox")

(***************************************************************************)
(* C10: a set mask bit whose trigger identifier is absent from the Trigger *)
(* table's data_ids does not end the program: the pass that expands it     *)
(* completes.                                                              *)
(***************************************************************************)
GroupMisses(fchar, group) ==
    LET groups == fchar.data_list_table[TableIndex(fchar, "TriggerGroup") + 1]
        known == fchar.data_list_table[TableIndex(fchar, "Trigger") + 1].data_ids
        index == ScanAssign(groups.data_ids, group, 0, 0, 0)
    IN  /\ index # 0
        /\ LET masks == MasksOf(ReadList(Field(groups.data_rsz[index + 1], 1)), 1)
           IN  \E m \in 1..Len(masks) : \E bit \in masks[m] :
                  \A k \in 1..Len(known) : known[k] # (m - 1) * MaskWidth + bit

TriggerMissExpanded ==
    /\ pass.op = "ui" /\ pass.log # <<>>
    /\ pass.log[Len(pass.log)].fn = "get_trigger_keys"
    /\ LET recs == ActiveRecords(SelectedAction(Self), RecomputeFrame - 1)
       IN  \E i \in 1..Len(recs) :
              /\ IsTriggerKey(recs[i])
              /\ Field(recs[i].data, 0).t = "Int32"
              /\ Field(recs[i].data, 1).t = "UInt32"
              /\ GroupMisses(asset[1], Field(recs[i].data, 0).v)

C10_TriggerLookupMiss == TriggerMissExpanded => ~panicked

(***************************************************************************)
(* C11: a SteerKey whose operation byte is outside 0..16 or whose target   *)
(* byte is outside 0..5 does not crash update_position: the replay that    *)
(* meets it completes, and the record has no effect (the kinematics are    *)
(* those of the action with the record taken out).                         *)
(***************************************************************************)
IsMalformedSteerKey(data) ==
    /\ data.name = "CharacterAsset.SteerKey"
    /\ \/ Field(data, 0).t = "UInt8" /\ Field(data, 0).v \notin 0..16
       \/ Field(data, 1).t = "UInt8" /\ Field(data, 1).v \notin 0..5

\* the selected action with every record that satisfies Drop replaced by a
\* record no handler matches
WithoutRecords(s, Drop(_)) ==
    LET strip(object) ==
            [object EXCEPT !.data = [k \in 1..Len(object.data) |->
                IF Drop(object.data[k]) THEN OtherKey ELSE object.data[k]]]
        action == SelectedAction(s)
    IN  [s EXCEPT !.asset[1].action_list[s.selected_index + 1].objects =
            [o \in 1..Len(action.objects) |-> strip(action.objects[o])]]

MalformedSteerKeyMet ==
    /\ pass.op = "ui" /\ pass.log # <<>>
    /\ \E i \in 2..Len(pass.log) :
          /\ pass.log[i].fn = "update_position"
          /\ LET recs == ActiveRecords(SelectedAction(Self), pass.log[i].frame)
             IN  \E k \in 1..Len(recs) : IsMalformedSteerKey(recs[k].data)

C11_MalformedSteerKey ==
    MalformedSteerKeyMet =>
        /\ ~panicked
        /\ KinematicsOf(Self) =
             KinematicsOf(ReplayLoop(AtRest(WithoutRecords(Self, IsMalformedSteerKey)),
                                     0, RecomputeFrame - 1))

(***************************************************************************)
(* C12: a PlaceKey active at frame f whose sample list has length <= f is  *)
(* a no-op: update_position(f) leaves the state it would leave with that   *)
(* PlaceKey taken out of the action (later keys applied, prev_* snapshot   *)
(* taken, ground clamp applied, root_motion unchanged).  Stated of the     *)
(* last update_position call of a replay.                                  *)
(***************************************************************************)
PlaceKeyOutOfRange(data, f) ==
    /\ data.name = "CharacterAsset.PlaceKey"
    /\ Len(ReadList(Field(data, 3))) <= f

OutOfRangePlaceKeyMet ==
    /\ Recomputed /\ RecomputeFrame >= 2
    /\ LET recs == ActiveRecords(SelectedAction(Self), LastFrame)
       IN  \E k \in 1..Len(recs) : PlaceKeyOutOfRange(recs[k].data, LastFrame)

C12_PlaceKeyOutOfRange ==
    OutOfRangePlaceKeyMet =>
        /\ KinematicsOf(Self) =
             KinematicsOf(update_position(
                WithoutRecords(BeforeLast, LAMBDA data : PlaceKeyOutOfRange(data, LastFrame)),
                LastFrame))
        /\ root_motion = BeforeLast.root_motion

(***************************************************************************)
(* C13: for every group identifier present in the TriggerGroup table's     *)
(* data_ids, at any position (the first included), get_triggers resolves   *)
(* the group's record and emits a Trigger for each set bit of its masks;   *)
(* it emits nothing when the identifier is absent.  Stated for the groups  *)
(* whose bits all name a Trigger id, with an empty trigger list at entry.  *)
(***************************************************************************)
GroupTable(fchar) == fchar.data_list_table[TableIndex(fchar, "TriggerGroup") + 1]
TriggerTable(fchar) == fchar.data_list_table[TableIndex(fchar, "Trigger") + 1]
\* the trigger identifiers named by the set bits of the group at 1-based position n
GroupBits(fchar, n) ==
    LET masks == MasksOf(ReadList(Field(GroupTable(fchar).data_rsz[n], 1)), 1)
    IN  UNION { { (m - 1) * 64 + bit : bit \in masks[m] } : m \in 1..Len(masks) }
KnownTriggers(fchar) ==
    { TriggerTable(fchar).data_ids[k] : k \in 1..Len(TriggerTable(fchar).data_ids) }
\* the action of the Trigger record of identifier id (identifiers are distinct)
ActionOfTrigger(fchar, id) ==
    LET k == CHOOSE k \in 1..Len(TriggerTable(fchar).data_ids) :
                 TriggerTable(fchar).data_ids[k] = id
    IN  Field(TriggerTable(fchar).data_rsz[k * 17], 5).v
EmittedBy(s) == { s.triggers[i] : i \in 1..Len(s.triggers) }

C13_TriggerGroupResolution ==
    (asset # <<>> /\ ~panicked) =>
        /\ \A n \in 1..Len(GroupTable(asset[1]).data_ids) :
             GroupBits(asset[1], n) \subseteq KnownTriggers(asset[1]) =>
                LET got == get_triggers([Self EXCEPT !.triggers = <<>>],
                                        GroupTable(asset[1]).data_ids[n], 1)
                IN  /\ ~got.panicked
                    /\ EmittedBy(got) =
                         { [action |-> ActionOfTrigger(asset[1], id), condition_flag |-> 1] :
                             id \in GroupBits(asset[1], n) }
        /\ \A group \in (0..MaxId) \ { GroupTable(asset[1]).data_ids[n] :
                                        n \in 1..Len(GroupTable(asset[1]).data_ids) } :
             get_triggers(Self, group, 1) = Self

(***************************************************************************)
(* C14: for a box kind, an identifier at 0-based position n of data_ids    *)
(* resolves to index n + 1 and the box is read from                        *)
(* data_rsz.data[(n + 1) * 6 - 1]; for data_ids = [10, 20, 30] and query   *)
(* 20 the record read is data_rsz.data[11].                                *)
(***************************************************************************)
\* the record at 0-based position k of a table's data_rsz.data, as a box
BoxAt(table, k) ==
    [x |-> Field(table.data_rsz[k + 1], 0).v, y |-> Field(table.data_rsz[k + 1], 1).v,
     width |-> Field(table.data_rsz[k + 1], 2).v,
     height |-> Field(table.data_rsz[k + 1], 3).v]
KindTableOf(fchar, kind) == fchar.data_list_table[TableIndex(fchar, kind) + 1]

C14_BoxStride ==
    asset # <<>> =>
        \A kind \in BoxKinds :
            KindPresent(asset[1], kind) =>
                LET table == KindTableOf(asset[1], kind)
                IN  /\ \A n \in 0..(Len(table.data_ids) - 1) :
                          (\A later \in (n + 2)..Len(table.data_ids) :
                                table.data_ids[later] # table.data_ids[n + 1])
                          => index_to_box(asset[1], table.data_ids[n + 1], kind, <<>>)
                               = BoxResult(<<BoxAt(table, (n + 1) * 6 - 1)>>, FALSE)
                    /\ table.data_ids = <<10, 20, 30>>
                          => index_to_box(asset[1], 20, kind, <<>>)
                               = BoxResult(<<BoxAt(table, 11)>>, FALSE)

\* a recompute that resolved hurt box 20 of [10, 20, 30] into a DamageCollisionKey
C14_Witness ==
    /\ Recomputed
    /\ KindTableOf(asset[1], "HurtBox").data_ids = <<10, 20, 30>>
    /\ \E k \in 1..Len(damage_collision_keys) :
          \E b \in 1..Len(damage_collision_keys[k].boxes) :
              damage_collision_keys[k].boxes[b] = BoxAt(KindTableOf(asset[1], "HurtBox"), 11)

(***************************************************************************)
(* C15: when open_fchar cannot parse the buffer it returns false and the   *)
(* Viewer is left with no asset: an asset loaded before is discarded by a  *)
(* failed load as it is by a successful one.                               *)
(***************************************************************************)
C15_LoadFailure ==
    (pass.op = "open_fchar" /\ ~pass.returned) => asset = <<>>

(***************************************************************************)
(* C16 as written: after a successful open_fchar the push, damage and      *)
(* attack collision key lists and the trigger list are empty and the       *)
(* kinematic vectors and root_motion are zero.                             *)
(***************************************************************************)
LoadedNow == pass.op = "open_fchar" /\ pass.returned

C16_AsWritten ==
    LoadedNow =>
        /\ push_collision_keys = <<>> /\ damage_collision_keys = <<>>
        /\ attack_collision_keys = <<>> /\ triggers = <<>>
        /\ KinematicsOf(Self) = KinematicsOf(AtRest(Self))

(***************************************************************************)
(* C16 as the code has it: a successful open_fchar sets selected_index to  *)
(* -1, action_index to 0 and current_frame to 1 and leaves the derived     *)
(* state (lists, vectors, action_info) and should_update as they were; the *)
(* pass that next selects an action recomputes them.                       *)
(***************************************************************************)
C16_LoadKeepsDerivedState ==
    /\ [][ (pass'.op = "open_fchar" /\ pass'.returned)
            => /\ selected_index' = -1 /\ action_index' = 0 /\ current_frame' = 1
               /\ DerivedOf(Self)' = DerivedOf(Self)
               /\ should_update' = should_update ]_vars
    /\ [][ (selected_index = -1 /\ selected_index' # -1) => pass'.log # <<>> ]_vars

\* a successful load over a Viewer that holds boxes and a moved character
C16_Witness ==
    /\ LoadedNow /\ selected_index = -1
    /\ push_collision_keys # <<>> /\ position # ZeroVec

(***************************************************************************)
(* C17: whenever an action is selected and has at least one frame,         *)
(* 1 <= current_frame <= its frame count; and every recompute runs with    *)
(* current_frame >= 1.                                                     *)
(***************************************************************************)
SelectedFrames == asset[1].action_list[selected_index + 1].frames

C17_FrameRange ==
    /\ (asset # <<>> /\ selected_index # -1 /\ SelectedFrames >= 1)
            => (1 <= current_frame /\ current_frame <= SelectedFrames)
    /\ (pass.op = "ui" /\ pass.log # <<>>) => RecomputeFrame >= 1

\* an action was clicked and the slider dragged to its last frame in one pass
C17_Witness ==
    /\ Recomputed /\ pass.clicked /\ pass.slider_changed
    /\ selected_index # -1 /\ current_frame = SelectedFrames

(***************************************************************************)
(* C18: a submitted text selects an action (an index whose action_id is    *)
(* the submitted id, current_frame 1, should_update set) exactly when the  *)
(* text is an integer that some action of the asset declares; otherwise    *)
(* the Viewer is left as it was.  The pass carrying a hit recomputes at    *)
(* frame 1; a pass carrying only a miss on a fresh Viewer recomputes       *)
(* nothing.                                                                *)
(***************************************************************************)
DeclaredIds == { asset[1].action_list[i].action_id : i \in 1..Len(asset[1].action_list) }

Submitted(text) == UiSelect(Self, -1, <<text>>)

SelectsDeclared(s, id) ==
    /\ s.selected_index \in 0..(Len(asset[1].action_list) - 1)
    /\ asset[1].action_list[s.selected_index + 1].action_id = id
    /\ s.action_index = id
    /\ s.current_frame = 1
    /\ s.should_update

C18_LookupById ==
    (asset # <<>> /\ ~panicked) =>
        /\ \A text \in Texts :
              IF parse_i32(text) # <<>> /\ parse_i32(text)[1] \in DeclaredIds
              THEN SelectsDeclared(Submitted(text), parse_i32(text)[1])
              ELSE Submitted(text) = Self
        /\ (pass.op = "ui" /\ pass.lookup = "hit")
              => (pass.log # <<>> /\ RecomputeFrame = 1 /\ selected_index # -1)
        /\ (pass.op = "ui" /\ pass.lookup = "miss" /\ ~pass.clicked /\ ~pass.stale_at_entry)
              => pass.log = <<>>

\* a hit submitted while another action was shown at a later frame, and a
\* text that is no integer submitted in the state reached
C18_Witness ==
    /\ Recomputed /\ pass.lookup = "hit" /\ ~pass.clicked
    /\ selected_index # -1 /\ current_frame > 1
    /\ \E text \in Texts : parse_i32(text) = <<>> /\ text # <<>>
    /\ \E text \in Texts : parse_i32(text) # <<>> /\ parse_i32(text)[1] \notin DeclaredIds
    /\ \E text \in Texts :
            /\ parse_i32(text) # <<>> /\ parse_i32(text)[1] \in DeclaredIds
            /\ Submitted(text).selected_index # selected_index

(***************************************************************************)
(* C19: update_position(f) first adds acceleration to velocity and the new *)
(* velocity to position, then applies the keys active at f, then copies    *)
(* the current vectors to prev_*, then clamps to the ground.  So the       *)
(* position a frame produces is the integrated one (clamped), whatever     *)
(* SteerKeys are active at that frame, and prev_* hold the values after    *)
(* the keys and before the clamp.  Stated of the last call of a replay.    *)
(***************************************************************************)
IntegratedVelocity ==
    Vec(BeforeLast.velocity.x + BeforeLast.acceleration.x,
        BeforeLast.velocity.y + BeforeLast.acceleration.y,
        BeforeLast.velocity.z + BeforeLast.acceleration.z)

IntegratedPosition ==
    Vec(BeforeLast.position.x + IntegratedVelocity.x,
        BeforeLast.position.y + IntegratedVelocity.y,
        BeforeLast.position.z + IntegratedVelocity.z)

C19_StepOrdering ==
    (Recomputed /\ RecomputeFrame >= 2) =>
        /\ position = [IntegratedPosition EXCEPT
                          !.y = IF IntegratedPosition.y < 0 THEN 0 ELSE IntegratedPosition.y]
        /\ prev_position = IntegratedPosition
        /\ prev_velocity = UnclampedLast.velocity
        /\ prev_acceleration = UnclampedLast.acceleration

(***************************************************************************)
(* C20: for every operation type 0..16 and every value, prev_value and     *)
(* modify_value, steer_key_to_value returns what the table of steer        *)
(* operations gives: Nop the value, Set the modifier, Add the sum,         *)
(* Multiply the product, SetNegativeX/Y/Z the modifier when value and      *)
(* prev_value have opposite signs, SetMinimum the smaller and SetMaximum   *)
(* the larger of value and modifier, and the eight reserved operations     *)
(* the value.                                                              *)
(***************************************************************************)
Smaller(a, b) == IF a <= b THEN a ELSE b
Larger(a, b) == IF a >= b THEN a ELSE b
OppositeSigns(a, b) == (a > 0 /\ b < 0) \/ (a < 0 /\ b > 0)

SteerTable(op, value, prev_value, modify_value) ==
    CASE op = 0 -> value
      [] op = 1 -> modify_value
      [] op = 2 -> value + modify_value
      [] op = 3 -> value * modify_value
      [] op \in {4, 5} -> value
      [] op \in {6, 7, 8} -> IF OppositeSigns(value, prev_value) THEN modify_value ELSE value
      [] op = 9 -> Smaller(value, modify_value)
      [] op = 10 -> Larger(value, modify_value)
      [] op \in {11, 12, 13, 14, 15, 16} -> value

C20_SteerTable ==
    /\ pass.op = "steer"
          => velocity.x = SteerTable(pass.op_type, pass.in_value, pass.prev_value,
                                     pass.modify_value)
    /\ \A op \in SteerOps, modify_value \in SteerValues :
          steer_key_to_value(op, velocity.x, prev_velocity.x, modify_value)
            = SteerTable(op, velocity.x, prev_velocity.x, modify_value)

\* SetMinimum applied to a value above the modifier, reached after other operations
C20_Witness ==
    /\ pass.op = "steer" /\ pass.op_type = SetMinimum
    /\ pass.in_value > MaxMag /\ pass.modify_value < 0
    /\ velocity.x = pass.modify_value

(***************************************************************************)
(* C21: a SetNegativeX/Y/Z SteerKey sets the targeted component to the     *)
(* modifier exactly when the component and its previous-frame value have   *)
(* strictly opposite signs, and leaves it otherwise; then, if the velocity *)
(* on the operation's own axis is 0, the acceleration on that axis becomes *)
(* 0; nothing else changes.                                                *)
(***************************************************************************)
\* velocity x, y, z then acceleration x, y, z, in the order of SteerValueType
Components(v, a) == << v.x, v.y, v.z, a.x, a.y, a.z >>

AfterTarget ==
    LET now == Components(pass.velocity, pass.acceleration)
        before == Components(pass.prev_velocity, pass.prev_acceleration)
        k == pass.value_type + 1
    IN  [now EXCEPT ![k] = IF OppositeSigns(now[k], before[k])
                           THEN pass.modify_value ELSE now[k]]

AfterStop ==
    LET axis == pass.op_type - SetNegativeX + 1
    IN  IF AfterTarget[axis] = 0 THEN [AfterTarget EXCEPT ![axis + 3] = 0] ELSE AfterTarget

C21_SetNegative ==
    pass.op = "steerkey" =>
        /\ pass.outcome = "next" /\ ~panicked
        /\ Components(velocity, acceleration) = AfterStop
        /\ position = pass.position /\ root_motion = pass.root_motion
        /\ prev_position = pass.prev_position
        /\ prev_velocity = pass.prev_velocity
        /\ prev_acceleration = pass.prev_acceleration

\* SetNegativeY on velocity.y that changed sign, with modifier 0: the velocity
\* is set to 0 and the acceleration on y is stopped
C21_Witness ==
    /\ pass.op = "steerkey" /\ pass.op_type = SetNegativeY /\ pass.value_type = VelocityY
    /\ pass.velocity.y < 0 /\ pass.prev_velocity.y > 0 /\ pass.modify_value = 0
    /\ pass.acceleration.y # 0 /\ pass.acceleration.x # 0
    /\ velocity.y = 0 /\ acceleration.y = 0 /\ acceleration.x = pass.acceleration.x

(***************************************************************************)
(* The resolvers on their own.  index_to_box and get_triggers are applied  *)
(* to assets whose data_id_table names every kind once (Asset1), names a   *)
(* kind twice, or lacks a kind.  pass records the call and, for            *)
(* index_to_box, the boxes it returned.                                    *)
(***************************************************************************)
HurtBoxes2 ==
    Table(<<10, 20>>, Strided(<<BoxRecord(51, 52, 53, 54), BoxRecord(55, 56, 57, 58)>>,
                              BoxStride))
Triggers2 ==
    Table(<<0, 1, 2>>,
          Strided(<<TriggerRecord(Int32(200)), TriggerRecord(Int32(201)),
                    TriggerRecord(Int32(202))>>, TriggerStride))
TriggerGroups2 ==
    Table(<<0, 1, 2>>,
          << TriggerGroupRecord(List(<<UInt64({0})>>)),
             TriggerGroupRecord(List(<<UInt64({2})>>)),
             TriggerGroupRecord(List(<<UInt64({1, 2})>>)) >>)
\* a group of which one mask bit is the number of a HurtBox identifier
TriggerGroups3 ==
    Table(<<0, 1>>,
          << TriggerGroupRecord(List(<<UInt64({0})>>)),
             TriggerGroupRecord(List(<<UInt64({10})>>)) >>)

\* HurtBox, Trigger and TriggerGroup are each named twice, with different tables
TwiceAsset ==
    [data_id_table |-> <<"HurtBox", "Trigger", "TriggerGroup", "HurtBox", "TriggerGroup",
                         "Trigger">>,
     data_list_table |-> <<HurtBoxes1, Triggers1, TriggerGroups1, HurtBoxes2,
                           TriggerGroups2, Triggers2>>,
     action_list |-> <<WalkAction>>]

\* no HurtBox, ProximityBox or ThrowHurtBox table
NoHurtAsset ==
    [data_id_table |-> <<"StrikeBox", "Trigger", "TriggerGroup">>,
     data_list_table |-> <<StrikeBoxes1, Triggers1, TriggerGroups1>>,
     action_list |-> <<WalkAction>>]

\* no Trigger table
NoTriggerAsset ==
    [data_id_table |-> <<"HurtBox", "TriggerGroup">>,
     data_list_table |-> <<HurtBoxes1, TriggerGroups3>>,
     action_list |-> <<WalkAction>>]

ResolverAssets == {Asset1, TwiceAsset, NoHurtAsset, NoTriggerAsset}
ResolverGroups == 0..3

ResolverInit ==
    /\ asset \in { <<fchar>> : fchar \in ResolverAssets }
    /\ selected_index = -1
    /\ action_index = 0
    /\ current_frame = 1
    /\ should_update = FALSE
    /\ action_info = DefaultActionInfo
    /\ push_collision_keys = <<>>
    /\ damage_collision_keys = <<>>
    /\ attack_collision_keys = <<>>
    /\ triggers = <<>>
    /\ position = ZeroVec
    /\ velocity = ZeroVec
    /\ acceleration = ZeroVec
    /\ prev_position = ZeroVec
    /\ prev_velocity = ZeroVec
    /\ prev_acceleration = ZeroVec
    /\ root_motion = ZeroVec
    /\ panicked = FALSE
    /\ pass = [op |-> "none", kind |-> "", id |-> 0, boxes |-> <<>>]

\* index_to_box(fchar, int, data_type, &mut boxes) on an empty box vector
ResolveBox(data_type, int) ==
    /\ ~panicked
    /\ \E r \in {index_to_box(asset[1], int, data_type, <<>>)} :
        /\ Store([Self EXCEPT !.panicked = r.panicked, !.triggers = <<>>])
        /\ pass' = [op |-> "index_to_box", kind |-> data_type, id |-> int,
                    boxes |-> r.boxes]

\* get_triggers(group, condition_flag) on an empty trigger list
ResolveTriggers(group, condition_flag) ==
    /\ ~panicked
    /\ \E w \in {get_triggers([Self EXCEPT !.triggers = <<>>], group, condition_flag)} :
        /\ Store(w)
        /\ pass' = [op |-> "get_triggers", kind |-> "TriggerGroup", id |-> group,
                    boxes |-> <<>>]

ResolverNext ==
    \/ \E data_type \in BoxKinds, int \in 0..MaxId : ResolveBox(data_type, int)
    \/ \E group \in ResolverGroups : ResolveTriggers(group, 1)

ResolverSpec == ResolverInit /\ [][ResolverNext]_vars

(***************************************************************************)
(* C22: when a kind is named more than once in data_id_table, index_to_box *)
(* and the two lookups of get_triggers use the table at the first entry    *)
(* naming the kind.                                                        *)
(***************************************************************************)
Occurrences(fchar, kind) ==
    { n \in 1..Len(fchar.data_id_table) : fchar.data_id_table[n] = kind }

FirstOf(positions) == CHOOSE n \in positions : \A k \in positions : n <= k

\* the asset with every later entry naming one of the kinds struck out
FirstOnly(fchar, kinds) ==
    [fchar EXCEPT !.data_id_table =
        [n \in 1..Len(fchar.data_id_table) |->
            IF /\ fchar.data_id_table[n] \in kinds
               /\ n # FirstOf(Occurrences(fchar, fchar.data_id_table[n]))
            THEN "Struck" ELSE fchar.data_id_table[n]]]

C22_FirstMatchingTable ==
    /\ (pass.op = "index_to_box" /\ Cardinality(Occurrences(asset[1], pass.kind)) > 1)
          => pass.boxes = index_to_box(FirstOnly(asset[1], {pass.kind}), pass.id,
                                       pass.kind, <<>>).boxes
    /\ (/\ pass.op = "get_triggers"
        /\ \/ Cardinality(Occurrences(asset[1], "TriggerGroup")) > 1
           \/ Cardinality(Occurrences(asset[1], "Trigger")) > 1)
          => LET first == [Self EXCEPT
                              !.asset = <<FirstOnly(asset[1], {"TriggerGroup", "Trigger"})>>,
                              !.triggers = <<>>, !.panicked = FALSE]
             IN  /\ triggers = get_triggers(first, pass.id, 1).triggers
                 /\ panicked = get_triggers(first, pass.id, 1).panicked

(***************************************************************************)
(* C23: for a resolved group, get_triggers emits exactly one Trigger for   *)
(* every set mask bit whose identifier bit_index + trigger_index * 64 is   *)
(* in the Trigger table, with the action of field 5 of the record at       *)
(* data[(n + 1) * 17 - 1] and the condition_flag of the call, and no other *)
(* Trigger.  Stated for assets that name both kinds once.                  *)
(***************************************************************************)
NamedOnce(fchar, kind) == Cardinality(Occurrences(fchar, kind)) = 1

\* 0-based position at which the group is resolved (0: not resolved)
GroupPosition(fchar, group) == ScanAssign(GroupTable(fchar).data_ids, group, 0, 0, 0)

TimesIn(list, t) == Cardinality({ i \in 1..Len(list) : list[i] = t })

C23_TriggerExpansion ==
    (/\ pass.op = "get_triggers"
     /\ NamedOnce(asset[1], "TriggerGroup") /\ NamedOnce(asset[1], "Trigger")
     /\ GroupPosition(asset[1], pass.id) > 0)
    => LET present == GroupBits(asset[1], GroupPosition(asset[1], pass.id) + 1)
                        \cap KnownTriggers(asset[1])
           due(id) == [action |-> ActionOfTrigger(asset[1], id), condition_flag |-> 1]
       IN  /\ ~panicked
           /\ Len(triggers) = Cardinality(present)
           /\ \A id \in present :
                 TimesIn(triggers, due(id))
                    = Cardinality({ other \in present : due(other) = due(id) })

(***************************************************************************)
(* C24: a TriggerKey active at the scanned frame whose group is Int32 and  *)
(* whose condition flag is not UInt32 is expanded with condition_flag 0;   *)
(* every other active TriggerKey is expanded with its own group and flag;  *)
(* and get_trigger_keys does not index its pending lists out of bounds.    *)
(***************************************************************************)
FlagMismatch(r) ==
    IsTriggerKey(r) /\ Field(r.data, 0).t = "Int32" /\ Field(r.data, 1).t # "UInt32"

\* each key expanded in turn with its own group and its own flag (0 when mistyped)
RECURSIVE ExpandEach(_, _, _)
ExpandEach(s, keys, i) ==
    IF i > Len(keys) THEN s
    ELSE ExpandEach(IF Field(keys[i].data, 0).t = "Int32"
                    THEN get_triggers(s, Field(keys[i].data, 0).v,
                                      IF Field(keys[i].data, 1).t = "UInt32"
                                      THEN Field(keys[i].data, 1).v ELSE 0)
                    ELSE s,
                    keys, i + 1)

TriggerKeysScanned ==
    /\ pass.op = "ui" /\ pass.log # <<>>
    /\ pass.log[Len(pass.log)].fn = "get_trigger_keys"

C24_TriggerKeyTypeMismatch ==
    (/\ TriggerKeysScanned
     /\ \E i \in 1..Len(ActiveTriggerKeys) : FlagMismatch(ActiveTriggerKeys[i]))
    => /\ ~panicked
       /\ triggers = SortDedup(ExpandEach([Self EXCEPT !.triggers = <<>>],
                                          ActiveTriggerKeys, 1).triggers)

(***************************************************************************)
(* C25: the boxes of a DamageCollisionKey are the hurt boxes of the        *)
(* identifiers of its head list (field 9), then its body list (field 10),  *)
(* then its leg list (field 11), each in list order; an identifier that is *)
(* not in the HurtBox table contributes no box.                            *)
(***************************************************************************)
IsDamageKey(r) == r.data.name = "CharacterAsset.DamageCollisionKey"
ActiveDamageKeys ==
    SelectSeq(ActiveRecords(SelectedAction(Self), RecomputeFrame - 1), IsDamageKey)

\* the hurt box of an identifier of the HurtBox table (identifiers are distinct)
HurtBoxOf(id) ==
    LET table == KindTableOf(asset[1], "HurtBox")
        n == CHOOSE n \in 1..Len(table.data_ids) : table.data_ids[n] = id
    IN  BoxAt(table, n * 6 - 1)

RECURSIVE HurtBoxesOf(_)
HurtBoxesOf(ids) ==
    IF ids = <<>> THEN <<>>
    ELSE (IF Head(ids).t = "Int32" /\ Head(ids).v \in IdsOf(asset[1], "HurtBox")
          THEN <<HurtBoxOf(Head(ids).v)>> ELSE <<>>)
         \o HurtBoxesOf(Tail(ids))

C25_DamageBoxOrder ==
    Recomputed =>
        /\ Len(damage_collision_keys) = Len(ActiveDamageKeys)
        /\ \A k \in 1..Len(ActiveDamageKeys) :
              LET data == ActiveDamageKeys[k].data
                  head == Field(data, 9).v
                  body == Field(data, 10).v
                  leg == Field(data, 11).v
              IN  /\ damage_collision_keys[k].boxes
                        = HurtBoxesOf(head) \o HurtBoxesOf(body) \o HurtBoxesOf(leg)
                  /\ Len(damage_collision_keys[k].boxes) <= Len(head) + Len(body) + Len(leg)

\* a DamageCollisionKey with a box from each list and identifiers that resolve to none
C25_Witness ==
    /\ Recomputed /\ Len(ActiveDamageKeys) > 0
    /\ Len(damage_collision_keys[1].boxes) = 3
    /\ Len(Field(ActiveDamageKeys[1].data, 9).v) + Len(Field(ActiveDamageKeys[1].data, 11).v) > 2
    /\ damage_collision_keys[1].boxes[1] # damage_collision_keys[1].boxes[3]

(***************************************************************************)
(* C26: in every reachable state selected_index is -1 or an index into the *)
(* action list of the asset now loaded, so the recompute never indexes     *)
(* action_list out of bounds.                                              *)
(***************************************************************************)
C26_SelectionValid ==
    \/ selected_index = -1
    \/ /\ asset # <<>>
       /\ 0 <= selected_index
       /\ selected_index < Len(asset[1].action_list)

\* the last action of the longer asset is selected (an index the shorter asset
\* does not have) right after a load that failed
C26_Witness ==
    /\ pass.op = "open_fchar" /\ ~pass.returned
    /\ asset # <<>> /\ selected_index = Len(asset[1].action_list) - 1
    /\ \E b \in Buffers : /\ parse_fchar(b) # <<>>
                          /\ Len(parse_fchar(b)[1].action_list) <= selected_index

(***************************************************************************)
(* C27: whenever a ui pass draws the derived state (an action is selected  *)
(* at the end of the pass, where render_boxes, the action info and the     *)
(* cancel list are drawn), should_update is false and the derived state is *)
(* the recompute result for the selected action and current_frame shown.   *)
(***************************************************************************)
Drawn == pass.op = "ui" /\ selected_index # -1 /\ ~panicked

C27_NoStaleExposure ==
    Drawn => /\ ~should_update
             /\ DerivedOf(Self) = DerivedOf(Recompute(Self))

(***************************************************************************)
(* C28: a recompute at 1-based frame F scans the boxes and the TriggerKeys *)
(* at key frame F - 1, taking the records whose interval covers it, and    *)
(* leaves the kinematic state of integrating key frames 0..F-2, in order,  *)
(* from zero; at F = 1 all kinematic vectors are zero.                     *)
(***************************************************************************)
IsBoxKey(r) ==
    r.data.name \in {"CharacterAsset.PushCollisionKey", "CharacterAsset.DamageCollisionKey",
                     "CharacterAsset.AttackCollisionKey"}

CoveringAt(f) == ActiveRecords(SelectedAction(Self), f)

C28_ScanAlignment ==
    Recomputed =>
        LET F == RecomputeFrame
            n == Len(pass.log)
        IN  /\ n = F + 2
            /\ \A k \in 0..(F - 2) :
                  pass.log[k + 2].fn = "update_position" /\ pass.log[k + 2].frame = k
            /\ pass.log[n - 1].fn = "get_boxes" /\ pass.log[n - 1].frame = F - 1
            /\ pass.log[n - 1].dispatched = HalfOpenPositions(SelectedAction(Self), F - 1)
            /\ pass.log[n].fn = "get_trigger_keys" /\ pass.log[n].frame = F - 1
            /\ pass.log[n].dispatched = HalfOpenPositions(SelectedAction(Self), F - 1)
            /\ Len(push_collision_keys) + Len(damage_collision_keys)
                  + Len(attack_collision_keys) = Len(SelectSeq(CoveringAt(F - 1), IsBoxKey))
            /\ (triggers # <<>> => SelectSeq(CoveringAt(F - 1), IsTriggerKey) # <<>>)
            /\ KinematicsOf(Self) = KinematicsOf(ReplayLoop(AtRest(Self), 0, F - 1))
            /\ (F = 1 => KinematicsOf(Self) = KinematicsOf(AtRest(Self)))

\* a recompute at a frame whose boxes differ from those of the frame after it,
\* with a character that has moved
C28_Witness ==
    /\ Recomputed /\ RecomputeFrame >= 3
    /\ position # ZeroVec
    /\ Len(SelectSeq(CoveringAt(RecomputeFrame - 1), IsBoxKey))
          # Len(SelectSeq(CoveringAt(RecomputeFrame), IsBoxKey))

(***************************************************************************)
(* C29: the SteerKeys active at one frame are applied in timeline-object   *)
(* order and then key order, each to the value the one before left; every  *)
(* sign comparison of the frame reads the prev_* snapshot taken at the end *)
(* of the frame before; and the snapshot of the frame is taken after all   *)
(* its keys and before the ground clamp.  Stated of the last call of a     *)
(* replay in which at least two SteerKeys are active.                      *)
(***************************************************************************)
IsSteerKey(r) == r.data.name = "CharacterAsset.SteerKey"
SteerKeysAt(f) == SelectSeq(CoveringAt(f), IsSteerKey)

RECURSIVE SteerInTurn(_, _, _)
SteerInTurn(s, keys, i) ==
    IF i > Len(keys) THEN s
    ELSE SteerInTurn(ApplySteerKey(s, keys[i].data).self, keys, i + 1)

\* frame f from the state before it: integration, then every SteerKey in turn
AfterSteerKeys(before, f) == SteerInTurn(Integrate(before), SteerKeysAt(f), 1)

C29_SequentialKeys ==
    (Recomputed /\ RecomputeFrame >= 2 /\ Len(SteerKeysAt(LastFrame)) >= 2) =>
        LET after == AfterSteerKeys(BeforeLast, LastFrame)
        IN  /\ prev_velocity = after.velocity
            /\ prev_acceleration = after.acceleration
            /\ velocity = GroundClamp(after).velocity
            /\ acceleration = GroundClamp(after).acceleration
            /\ LastFrame >= 1 =>
                  LET earlier == AfterSteerKeys(ReplayLoop(AtRest(Self), 0, LastFrame - 1),
                                                LastFrame - 1)
                  IN  /\ BeforeLast.prev_velocity = earlier.velocity
                      /\ BeforeLast.prev_acceleration = earlier.acceleration

(***************************************************************************)
(* C30: when the requested kind is not named in data_id_table,             *)
(* index_to_box appends no box and get_triggers emits no trigger (neither  *)
(* when TriggerGroup nor when Trigger is the kind that is missing): no     *)
(* identifier is looked up in the table of another kind.                   *)
(***************************************************************************)
C30_AbsentKind ==
    /\ (pass.op = "index_to_box" /\ Occurrences(asset[1], pass.kind) = {})
          => (pass.boxes = <<>> /\ ~panicked)
    /\ (/\ pass.op = "get_triggers"
        /\ \/ Occurrences(asset[1], "TriggerGroup") = {}
           \/ Occurrences(asset[1], "Trigger") = {})
          => (triggers = <<>> /\ ~panicked)

====
